---- MODULE Spec2Model ----
(***************************************************************************)
(* A model of the T-Rex shell (hmZa-Sfyn/t-rex): the command dispatcher,   *)
(* the variable store, the loop evaluator and the pipeline evaluator of    *)
(* main.go, with the tokenizer of trex_utils.  Strings are TLA+ strings;   *)
(* a string is read rune by rune with SubSeq, Len and \o.                  *)
(***************************************************************************)
EXTENDS Integers, Sequences, FiniteSets, TLC

(***************************************************************************)
(* Go's strings package, as far as the shell uses it.                      *)
(***************************************************************************)
\* the rune at index i (1-based) of s, "" outside the string
Ch(s, i) == IF i >= 1 /\ i <= Len(s) THEN SubSeq(s, i, i) ELSE ""

SetMin(S) == CHOOSE x \in S : \A y \in S : x <= y

SetMax(S) == CHOOSE x \in S : \A y \in S : x >= y

\* unicode.IsSpace / the regexp class \s, on the characters the model uses
IsSpace(c) == c \in {" ", "\t", "\n", "\r"}

Lower == {"a","b","c","d","e","f","g","h","i","j","k","l","m",
          "n","o","p","q","r","s","t","u","v","w","x","y","z"}

Upper == {"A","B","C","D","E","F","G","H","I","J","K","L","M",
          "N","O","P","Q","R","S","T","U","V","W","X","Y","Z"}

Digit == {"0","1","2","3","4","5","6","7","8","9"}

\* [A-Za-z_]
IsNameStart(c) == c \in Lower \cup Upper \cup {"_"}

\* [A-Za-z0-9_]
IsNameChar(c) == c \in Lower \cup Upper \cup Digit \cup {"_"}

\* A rune that UTF-8 encodes in two bytes is written "@" in the model's
\* input lines; every other rune of the model is one byte long.
ByteLen(c) == IF c = "@" THEN 2 ELSE 1

\* the byte offset of the rune at index k (1-based) of s
ByteOffset(s, k) == (k - 1) + Cardinality({j \in 1..(k - 1) : Ch(s, j) = "@"})

\* len(s), in bytes
ByteLenOf(s) == ByteOffset(s, Len(s) + 1)

TrimSpace(s) ==
  LET keep == {i \in 1..Len(s) : ~IsSpace(Ch(s, i))}
  IN  IF keep = {} THEN "" ELSE SubSeq(s, SetMin(keep), SetMax(keep))

\* strings.Trim(s, cutset), cutset given as a set of runes
Trim(s, cutset) ==
  LET keep == {i \in 1..Len(s) : Ch(s, i) \notin cutset}
  IN  IF keep = {} THEN "" ELSE SubSeq(s, SetMin(keep), SetMax(keep))

HasPrefix(s, p) == Len(s) >= Len(p) /\ SubSeq(s, 1, Len(p)) = p

HasSuffix(s, p) == Len(s) >= Len(p) /\ SubSeq(s, Len(s) - Len(p) + 1, Len(s)) = p

\* strings.Index, 1-based; 0 when sub does not occur
Index(s, sub) ==
  LET at == {i \in 1..(Len(s) - Len(sub) + 1) : SubSeq(s, i, i + Len(sub) - 1) = sub}
  IN  IF at = {} THEN 0 ELSE SetMin(at)

Contains(s, sub) == Index(s, sub) # 0

RECURSIVE Split(_, _)
Split(s, sep) ==
  LET i == Index(s, sep)
  IN  IF i = 0 THEN <<s>>
      ELSE <<SubSeq(s, 1, i - 1)>> \o Split(SubSeq(s, i + Len(sep), Len(s)), sep)

\* strings.SplitN(s, sep, 2)
SplitN2(s, sep) ==
  LET i == Index(s, sep)
  IN  IF i = 0 THEN <<s>>
      ELSE <<SubSeq(s, 1, i - 1), SubSeq(s, i + Len(sep), Len(s))>>

RECURSIVE Join(_, _)
Join(parts, sep) ==
  IF parts = <<>> THEN ""
  ELSE IF Len(parts) = 1 THEN parts[1]
  ELSE parts[1] \o sep \o Join(Tail(parts), sep)

\* the first index >= i of s that holds no white space (Len(s)+1 when none)
SkipSpace(s, i) ==
  LET at == {j \in i..Len(s) : ~IsSpace(Ch(s, j))}
  IN  IF at = {} THEN Len(s) + 1 ELSE SetMin(at)

\* the first index >= i of s that holds no name character
SkipName(s, i) ==
  LET at == {j \in i..Len(s) : ~IsNameChar(Ch(s, j))}
  IN  IF at = {} THEN Len(s) + 1 ELSE SetMin(at)

\* the first index >= i of s that holds white space
SkipNonSpace(s, i) ==
  LET at == {j \in i..Len(s) : IsSpace(Ch(s, j))}
  IN  IF at = {} THEN Len(s) + 1 ELSE SetMin(at)

LitAt(s, i, lit) == i + Len(lit) - 1 <= Len(s) /\ SubSeq(s, i, i + Len(lit) - 1) = lit

\* the last index of s that holds no white space (0 when none)
LastNonSpace(s) ==
  LET at == {j \in 1..Len(s) : ~IsSpace(Ch(s, j))}
  IN  IF at = {} THEN 0 ELSE SetMax(at)

(***************************************************************************)
(* strconv.Atoi and strconv.Itoa on the small integers of the model.       *)
(***************************************************************************)
DigitVal(c) ==
  CASE c = "0" -> 0 [] c = "1" -> 1 [] c = "2" -> 2 [] c = "3" -> 3 [] c = "4" -> 4
    [] c = "5" -> 5 [] c = "6" -> 6 [] c = "7" -> 7 [] c = "8" -> 8 [] OTHER -> 9

DigitStr(d) == Ch("0123456789", d + 1)

IsDigits(s) == s # "" /\ \A i \in 1..Len(s) : Ch(s, i) \in Digit

RECURSIVE DigitsVal(_)
DigitsVal(s) ==
  IF s = "" THEN 0
  ELSE 10 * DigitsVal(SubSeq(s, 1, Len(s) - 1)) + DigitVal(Ch(s, Len(s)))

AtoiOk(s) ==
  IF s # "" /\ Ch(s, 1) \in {"+", "-"} THEN IsDigits(Tail(s)) ELSE IsDigits(s)

AtoiVal(s) ==
  IF Ch(s, 1) = "-" THEN 0 - DigitsVal(Tail(s))
  ELSE IF Ch(s, 1) = "+" THEN DigitsVal(Tail(s))
  ELSE DigitsVal(s)

RECURSIVE NatStr(_)
NatStr(n) == IF n < 10 THEN DigitStr(n) ELSE NatStr(n \div 10) \o DigitStr(n % 10)

Itoa(n) == IF n < 0 THEN "-" \o NatStr(0 - n) ELSE NatStr(n)

(***************************************************************************)
(* trex_utils.ParseCommand, the tokenizer.  The loop ranges over the runes *)
(* of the line with i the BYTE offset of the rune; the trailing buffer is  *)
(* emitted by the test i == len(line)-1 inside the loop.  The model takes  *)
(* the loop one buffer at a time: `current` is empty and inQuotes false at *)
(* the start of the line and after every separator.                        *)
(***************************************************************************)
\* s without its quote characters (a quote toggles inQuotes and is not written)
RECURSIVE Unquote(_)
Unquote(s) ==
  IF Len(s) <= 1 THEN (IF s = "\"" THEN "" ELSE s)
  ELSE LET h == Len(s) \div 2
       IN  Unquote(SubSeq(s, 1, h)) \o Unquote(SubSeq(s, h + 1, Len(s)))

\* inQuotes when the rune at j is read, the buffer having started at k
inQuotes(line, k, j) == Cardinality({q \in k..(j - 1) : Ch(line, q) = "\""}) % 2 = 1

\* the first rune at or after k that is a space read outside quotes
\* (Len(line)+1 when none)
NextSeparator(line, k) ==
  LET at == {j \in k..Len(line) : Ch(line, j) = " "}
      sp == {j \in at : ~inQuotes(line, k, j)}
  IN  IF sp = {} THEN Len(line) + 1 ELSE SetMin(sp)

\* the loop from rune k on, with an empty buffer; last is len(line)-1
RECURSIVE ParseCommandFrom(_, _, _, _)
ParseCommandFrom(line, k, last, parts) ==
  IF k > Len(line) THEN parts
  ELSE
    LET j == NextSeparator(line, k)
    IN  IF j <= Len(line)
        THEN LET current == Unquote(SubSeq(line, k, j - 1))
             IN  ParseCommandFrom(line, j + 1, last,
                   IF current # "" THEN Append(parts, current) ELSE parts)
        ELSE LET current == Unquote(SubSeq(line, k, Len(line)))
             IN  IF ByteOffset(line, Len(line)) = last /\ current # ""
                 THEN Append(parts, current) ELSE parts

ParseCommand(line) == ParseCommandFrom(line, 1, ByteLenOf(line) - 1, <<>>)

(***************************************************************************)
(* The Variable Store is a function from the bound names to their values.  *)
(***************************************************************************)
\* the write that reaches every bound name
BindEvery(store, name, val) == [n \in DOMAIN store \cup {name} |-> val]

Bind(store, name, val) ==
  [n \in DOMAIN store \cup {name} |-> IF n = name THEN val ELSE store[n]]

\* delete left out: the store as it was
UnbindKept(store, name) == store

Unbind(store, name) == [n \in DOMAIN store \ {name} |-> store[n]]

Lookup(store, name) == IF name \in DOMAIN store THEN store[name] ELSE ""

(***************************************************************************)
(* Shell.expandVars: regexp \$(?:\{(NAME)\}|(NAME)), every leftmost match  *)
(* replaced by the variable's value ("" when unbound), in one pass.        *)
(***************************************************************************)
RECURSIVE expandFrom(_, _, _)
expandFrom(input, i, store) ==
  LET at == {j \in i..Len(input) : Ch(input, j) = "$"}
      d  == IF at = {} THEN Len(input) + 1 ELSE SetMin(at)   \* the next "$"
      e1 == SkipName(input, d + 2)   \* end of NAME in ${NAME}
      e2 == SkipName(input, d + 1)   \* end of NAME in $NAME
  IN  IF d > Len(input) THEN SubSeq(input, i, Len(input))
      ELSE SubSeq(input, i, d - 1) \o
           (IF /\ Ch(input, d + 1) = "{"
               /\ IsNameStart(Ch(input, d + 2))
               /\ Ch(input, e1) = "}"
            THEN Lookup(store, SubSeq(input, d + 2, e1 - 1)) \o expandFrom(input, e1 + 1, store)
            ELSE IF IsNameStart(Ch(input, d + 1))
            THEN Lookup(store, SubSeq(input, d + 1, e2 - 1)) \o expandFrom(input, e2, store)
            ELSE "$" \o expandFrom(input, d + 1, store))

\* the two ways a reference to n is written
Dollar(n) == "$" \o n

Braced(n) == "${" \o n \o "}"

\* the replacement text scanned again for references
expandVarsTwice(input, store) == expandFrom(expandFrom(input, 1, store), 1, store)

expandVars(input, store) == expandFrom(input, 1, store)

(***************************************************************************)
(* The three whole-line patterns of the dispatcher.  Each operator returns *)
(* a record with ok = FALSE when the pattern does not match.               *)
(***************************************************************************)
NoMatch == [ok |-> FALSE, expr |-> "", name |-> "", body |-> ""]

\* \s+as\s+\$(NAME)\s+do\s*\{(.*)\}\s*$ matched at index k of line
LoopTail(line, k) ==
  LET a  == SkipSpace(line, k)          \* "as"
      d  == SkipSpace(line, a + 2)      \* "$"
      ne == SkipName(line, d + 1)       \* one past NAME
      o  == SkipSpace(line, ne)         \* "do"
      b  == SkipSpace(line, o + 2)      \* "{"
      q  == LastNonSpace(line)          \* the closing "}"
  IN  IF /\ a > k /\ LitAt(line, a, "as")
         /\ d > a + 2 /\ Ch(line, d) = "$"
         /\ IsNameStart(Ch(line, d + 1))
         /\ o > ne /\ LitAt(line, o, "do")
         /\ Ch(line, b) = "{"
         /\ q > b /\ Ch(line, q) = "}"
      THEN [ok |-> TRUE, expr |-> "", name |-> SubSeq(line, d + 1, ne - 1),
            body |-> SubSeq(line, b + 1, q - 1)]
      ELSE NoMatch

\* (?s)^\s*forloop\s+([^\s]+)\s+as\s+\$(NAME)\s+do\s*\{(.*)\}\s*$
MatchForLoop(line) ==
  LET p  == SkipSpace(line, 1)
      r  == SkipSpace(line, p + 7)      \* start of the range expression
      re == SkipNonSpace(line, r)       \* one past it
      t  == LoopTail(line, re)
  IN  IF LitAt(line, p, "forloop") /\ r > p + 7 /\ re > r /\ t.ok
      THEN [t EXCEPT !.expr = SubSeq(line, r, re - 1)]
      ELSE NoMatch

\* (?s)^\s*foreach\s+(.+?)\s+as\s+\$(NAME)\s+do\s*\{(.*)\}\s*$ : \s+ is greedy
\* (the list starts as late as possible) and (.+?) lazy (it ends as early as
\* possible), in that order of preference.
MatchForeach(line) ==
  LET p    == SkipSpace(line, 1)
      r    == SkipSpace(line, p + 7)
      cand == {se \in ((p + 8)..r) \X ((p + 8)..Len(line)) :
                 se[1] <= se[2] /\ LoopTail(line, se[2] + 1).ok}
      st   == SetMax({se[1] : se \in cand})
      en   == SetMin({se[2] : se \in {c \in cand : c[1] = st}})
  IN  IF LitAt(line, p, "foreach") /\ r > p + 7 /\ cand # {}
      THEN [LoopTail(line, en + 1) EXCEPT !.expr = SubSeq(line, st, en)]
      ELSE NoMatch

\* ^\s*(?:export\s+)?(NAME)\s*=\s*(.+)$ ; body holds the text after "="
AssignAt(line, p) ==
  LET ne == SkipName(line, p)
      eq == SkipSpace(line, ne)
  IN  IF IsNameStart(Ch(line, p)) /\ Ch(line, eq) = "=" /\ eq < Len(line)
      THEN [ok |-> TRUE, expr |-> "", name |-> SubSeq(line, p, ne - 1),
            body |-> SubSeq(line, eq + 1, Len(line))]
      ELSE NoMatch

MatchAssign(line) ==
  LET p == SkipSpace(line, 1)
      x == SkipSpace(line, p + 6)
      withExport == IF LitAt(line, p, "export") /\ x > p + 6
                    THEN AssignAt(line, x) ELSE NoMatch
  IN  IF withExport.ok THEN withExport ELSE AssignAt(line, p)

(***************************************************************************)
(* JSON values (Go's interface{} after json.Unmarshal, or a literal head). *)
(* t is the dynamic Go type; s holds a string, or the %v text of a number  *)
(* or boolean; l the elements of a list (each by its %v text); m a mapping *)
(* from keys to the JSON text of their values.                             *)
(***************************************************************************)
EmptyMap == [k \in {} |-> ""]

StrV(s) == [t |-> "string", s |-> s, l |-> <<>>, m |-> EmptyMap]

NumV(s) == [t |-> "float64", s |-> s, l |-> <<>>, m |-> EmptyMap]

BoolV(b) == [t |-> "bool", s |-> IF b THEN "true" ELSE "false", l |-> <<>>, m |-> EmptyMap]

\* []string, the type of the items of an array-literal head
StrsV(l) == [t |-> "[]string", s |-> "", l |-> l, m |-> EmptyMap]

\* []interface{}, the type of a JSON array returned by a module
ListV(l) == [t |-> "[]interface{}", s |-> "", l |-> l, m |-> EmptyMap]

\* map[string]interface{}
MapV(m) == [t |-> "map", s |-> "", l |-> <<>>, m |-> m]

NilV == [t |-> "nil", s |-> "", l |-> <<>>, m |-> EmptyMap]

\* A Result is a function from its keys to their values.
EmptyResult == [k \in {} |-> NilV]

SetKey(result, key, val) ==
  [k \in DOMAIN result \cup {key} |-> IF k = key THEN val ELSE result[k]]

(***************************************************************************)
(* What the shell does that can be observed: the events of one top-level   *)
(* command, in order.                                                      *)
(***************************************************************************)
Event(ev, name, args, pre, res, mode) ==
  [ev |-> ev, name |-> name, args |-> args, pre |-> pre, res |-> res, mode |-> mode]

EvHandler(kind, line) == Event("handler", kind, <<line>>, EmptyResult, EmptyResult, "")

\* Loader.FindModule(name)
EvFind(name) == Event("find", name, <<>>, EmptyResult, EmptyResult, "")

\* PythonExecutor.Execute(name, args)
EvExec(name, args) == Event("exec", name, args, EmptyResult, EmptyResult, "")

\* a pipeline stage applied to the working Result: pre is the Result it
\* found, res the Result it left
EvStage(op, args, pre, res) == Event("stage", op, args, pre, res, "")

\* printResult(res), rendered in mode Raw, Pretty or Table
EvPrint(res, mode) == Event("print", "", <<>>, EmptyResult, res, mode)

\* s.vars[name] = val
EvAssign(name, val) == Event("assign", name, <<val>>, EmptyResult, EmptyResult, "")

\* delete(s.vars, name)
EvUnset(name) == Event("unset", name, <<>>, EmptyResult, EmptyResult, "")

\* the loop variable bound to the next value
EvBind(name, val) == Event("bind", name, <<val>>, EmptyResult, EmptyResult, "")

\* a diagnostic printed for the user
EvDiag(kind, text) == Event("diag", kind, <<text>>, EmptyResult, EmptyResult, "")

\* History.Add(line)
EvHistory(line) == Event("history", "", <<line>>, EmptyResult, EmptyResult, "")

(***************************************************************************)
(* The modules on the search path: a table of name -> behaviour standing   *)
(* for the Python scripts, which the shell treats as black boxes.          *)
(***************************************************************************)
ModuleNames ==
  {"echo", "greet", "info", "list", "ping", "void", "yes", "flagged", "brokenmodule",
   "quiet"}

\* Loader.FindModule: err == nil
FindModule(name) == name \in ModuleNames

\* the error of Execute: a non-zero exit or output that is not JSON
ExecuteErr(name, args) == IF name = "brokenmodule" THEN "exit status 1" ELSE ""

\* json.Unmarshal of "null" leaves the map nil and returns no error
ExecuteNil(name, args) == name = "quiet"

ExecuteResult(name, args) ==
  CASE name = "echo" ->
         [output |-> StrV(Join(args, " ")), status |-> StrV("success")]
    [] name = "greet" ->
         [output |-> StrV("Hello, " \o Join(args, " ") \o "!"), status |-> StrV("success")]
    [] name = "info" ->
         [output |-> MapV([a |-> "1", b |-> "2", c |-> "3"]),
          status |-> StrV("success"), host |-> StrV("rex")]
    [] name = "list" ->
         [output |-> ListV(<<"1", "2">>), status |-> StrV("success")]
    [] name = "ping" ->
         [status |-> StrV("success")]
    [] name = "void" ->
         [output |-> NilV, status |-> StrV("success")]
    [] name = "yes" ->
         [output |-> BoolV(TRUE), status |-> StrV("success")]
    [] name = "flagged" ->
         [output |-> StrV("x"), status |-> StrV("success"), __pretty_print |-> StrV("yes")]
    [] OTHER -> EmptyResult

\* What a step of a handler hands back: how it ended, the error (if any),
\* the Result (if any) and the events it produced.
Outcome(how, err, res, events) ==
  [how |-> how, err |-> err, res |-> res, events |-> events]

ErrNotExist == "file does not exist"

\* executeModule with its two error returns turned into an empty Result
executeModuleLenient(cmdA, args) ==
  LET cmd == cmdA[1]
  IN  IF ~FindModule(cmd)
      THEN Outcome("result", "", [status |-> StrV("error")],
                   <<EvFind(cmd), EvDiag("module_not_found", Join(cmdA, " "))>>)
      ELSE IF ExecuteErr(cmd, args) # ""
      THEN Outcome("result", "", [status |-> StrV("error")],
                   <<EvFind(cmd), EvExec(cmd, args), EvDiag("execution_error", cmd)>>)
      ELSE IF ExecuteNil(cmd, args)
      THEN Outcome("nil", "", EmptyResult, <<EvFind(cmd), EvExec(cmd, args)>>)
      ELSE Outcome("result", "", ExecuteResult(cmd, args),
                   <<EvFind(cmd), EvExec(cmd, args)>>)

\* Shell.executeModule(cmdA, args); how is "result", "nil" or "error"
executeModule(cmdA, args) ==
  LET cmd == cmdA[1]
  IN  IF ~FindModule(cmd)
      THEN Outcome("error", ErrNotExist, EmptyResult,
                   <<EvFind(cmd), EvDiag("module_not_found", Join(cmdA, " "))>>)
      ELSE IF ExecuteErr(cmd, args) # ""
      THEN Outcome("error", ExecuteErr(cmd, args), EmptyResult,
                   <<EvFind(cmd), EvExec(cmd, args), EvDiag("execution_error", cmd)>>)
      ELSE IF ExecuteNil(cmd, args)
      THEN Outcome("nil", "", EmptyResult, <<EvFind(cmd), EvExec(cmd, args)>>)
      ELSE Outcome("result", "", ExecuteResult(cmd, args),
                   <<EvFind(cmd), EvExec(cmd, args)>>)

(***************************************************************************)
(* Shell.printResult: the flags are read with a type assertion to bool,    *)
(* which panics on any other type; Table wins over Pretty.                 *)
(***************************************************************************)
FlagPanics(result, key) == key \in DOMAIN result /\ result[key].t # "bool"

FlagSet(result, key) == key \in DOMAIN result /\ result[key].s = "true"

printMode(result) ==
  IF FlagSet(result, "__table_print") THEN "Table"
  ELSE IF FlagSet(result, "__pretty_print") THEN "Pretty"
  ELSE "Raw"

printResult(result) ==
  IF FlagPanics(result, "__pretty_print") \/ FlagPanics(result, "__table_print")
  THEN Outcome("panic", "interface conversion", EmptyResult, <<>>)
  ELSE Outcome("ok", "", EmptyResult, <<EvPrint(result, printMode(result))>>)

\* apply f to every element of a sequence of strings
MapExpand(args, store) == [i \in 1..Len(args) |-> expandVars(args[i], store)]

(***************************************************************************)
(* trex_utils.SelectFields(data, fields): the entries of data whose key is *)
(* one of the fields, each field trimmed.                                  *)
(***************************************************************************)
SelectFields(data, fields) ==
  LET wanted == {TrimSpace(fields[i]) : i \in 1..Len(fields)}
  IN  [k \in DOMAIN data \cap wanted |-> data[k]]

(***************************************************************************)
(* json.Marshal of a mapping: the keys in byte order.                      *)
(***************************************************************************)
ByteOrder == "\"$',-.0123456789=@ABCDEFGHIJKLMNOPQRSTUVWXYZ[]_abcdefghijklmnopqrstuvwxyz{|}"

RECURSIVE StrLess(_, _)
StrLess(a, b) ==
  IF b = "" THEN FALSE
  ELSE IF a = "" THEN TRUE
  ELSE IF Ch(a, 1) = Ch(b, 1) THEN StrLess(Tail(a), Tail(b))
  ELSE Index(ByteOrder, Ch(a, 1)) < Index(ByteOrder, Ch(b, 1))

RECURSIVE MarshalEntries(_, _)
MarshalEntries(m, keys) ==
  IF keys = {} THEN ""
  ELSE LET k == CHOOSE x \in keys : \A y \in keys \ {x} : StrLess(x, y)
       IN  "\"" \o k \o "\":" \o m[k]
             \o (IF keys = {k} THEN "" ELSE "," \o MarshalEntries(m, keys \ {k}))

MarshalMap(m) == "{" \o MarshalEntries(m, DOMAIN m) \o "}"

(***************************************************************************)
(* strconv.ParseFloat on the decimal literals [+-]digits[.digits], and the *)
(* %v text of the float64 it yields (no exponent form arises for the       *)
(* magnitudes the model uses).                                             *)
(***************************************************************************)
Unsigned(s) == IF s # "" /\ Ch(s, 1) \in {"+", "-"} THEN Tail(s) ELSE s

IntPart(s) ==
  LET u == Unsigned(s) IN IF Contains(u, ".") THEN SubSeq(u, 1, Index(u, ".") - 1) ELSE u

FracPart(s) ==
  LET u == Unsigned(s)
  IN  IF Contains(u, ".") THEN SubSeq(u, Index(u, ".") + 1, Len(u)) ELSE ""

ParseFloatOk(s) ==
  /\ IntPart(s) = "" \/ IsDigits(IntPart(s))
  /\ FracPart(s) = "" \/ IsDigits(FracPart(s))
  /\ IntPart(s) # "" \/ FracPart(s) # ""

FloatText(s) ==
  LET frac == FracPart(s)
      sig  == {i \in 1..Len(frac) : Ch(frac, i) # "0"}
      fr   == IF sig = {} THEN "" ELSE SubSeq(frac, 1, SetMax(sig))
  IN  (IF Ch(s, 1) = "-" THEN "-" ELSE "")
        \o NatStr(DigitsVal(IntPart(s)))
        \o (IF fr = "" THEN "" ELSE "." \o fr)

(***************************************************************************)
(* Shell.executePipeline.                                                  *)
(***************************************************************************)
IsQuoted(s) ==
  \/ HasPrefix(s, "\"") /\ HasSuffix(s, "\"")
  \/ HasPrefix(s, "'") /\ HasSuffix(s, "'")

LiteralResult(output) == [output |-> output, status |-> StrV("success")]

\* the head, the text before the first "|"
PipeHead(firstPart, store) ==
  LET firstTrim == TrimSpace(firstPart)
      cmdParts  == ParseCommand(firstPart)
      args      == MapExpand(Tail(cmdParts), store)
      cmd       == expandVars(cmdParts[1], store)
  IN  IF HasPrefix(firstTrim, "[") /\ HasSuffix(firstTrim, "]")
      THEN Outcome("result", "",
             LiteralResult(StrsV(ParseCommand(TrimSpace(SubSeq(firstTrim, 2, Len(firstTrim) - 1))))),
             <<>>)
      ELSE IF IsQuoted(firstTrim)
      THEN IF Len(firstTrim) < 2
           THEN Outcome("panic", "slice bounds out of range [1:0]", EmptyResult, <<>>)
           ELSE Outcome("result", "",
                  LiteralResult(StrV(SubSeq(firstTrim, 2, Len(firstTrim) - 1))), <<>>)
      ELSE IF ParseFloatOk(firstTrim)
      THEN Outcome("result", "", LiteralResult(NumV(FloatText(firstTrim))), <<>>)
      ELSE IF AtoiOk(firstTrim)
      THEN Outcome("result", "", LiteralResult(NumV(Itoa(AtoiVal(firstTrim)))), <<>>)
      ELSE IF cmdParts = <<>>
      THEN Outcome("nil", "", EmptyResult, <<>>)
      ELSE executeModule(Split(cmd, " "), args)

\* the projection with a list handed on as one argument
ProjectOutputJoined(result) ==
  IF "output" \notin DOMAIN result \/ result["output"].t = "nil" THEN <<>>
  ELSE LET out == result["output"]
       IN  CASE out.t = "string" -> <<out.s>>
             [] out.t \in {"float64", "bool"} -> <<out.s>>
             [] out.t \in {"[]interface{}", "[]string"} -> <<Join(out.l, " ")>>
             [] OTHER -> <<MarshalMap(out.m)>>

\* the projection of the previous output into call arguments
ProjectOutput(result) ==
  IF "output" \notin DOMAIN result \/ result["output"].t = "nil" THEN <<>>
  ELSE LET out == result["output"]
       IN  CASE out.t = "string" -> <<out.s>>
             [] out.t \in {"float64", "bool"} -> <<out.s>>
             [] out.t \in {"[]interface{}", "[]string"} -> out.l
             [] OTHER -> <<MarshalMap(out.m)>>

\* case "select" without the type test: an output that is no mapping is
\* replaced by the empty mapping
selectStageUntyped(result, args) ==
  IF "output" \in DOMAIN result
  THEN SetKey(result, "output", MapV(SelectFields(result["output"].m, args)))
  ELSE SetKey(result, "output", MapV(EmptyMap))

\* case "select": the output narrowed when it is a mapping
selectStage(result, args) ==
  IF "output" \in DOMAIN result /\ result["output"].t = "map"
  THEN SetKey(result, "output", MapV(SelectFields(result["output"].m, args)))
  ELSE result

\* the flag written as false
ppStageCleared(result) == SetKey(result, "__pretty_print", BoolV(FALSE))

\* case "pp"
ppStage(result) == SetKey(result, "__pretty_print", BoolV(TRUE))

\* case "tt"
ttStage(result) == SetKey(result, "__table_print", BoolV(TRUE))

\* the keys of the earlier Result kept where the module returned none
CarryMerged(result, modResult) ==
  [k \in DOMAIN result \cup DOMAIN modResult |->
     IF k \in DOMAIN modResult THEN modResult[k] ELSE result[k]]

\* result = modResult
CarryForward(result, modResult) == modResult

\* the stages pipeParts[k..] applied to result; how is "ok", "error" or "panic"
RECURSIVE RunStages(_, _, _, _)
RunStages(pipeParts, k, result, events) ==
  IF k > Len(pipeParts)
  THEN LET pr == printResult(result)
       IN  Outcome(pr.how, pr.err, EmptyResult, events \o pr.events)
  ELSE
    LET pipe     == TrimSpace(pipeParts[k])
        cmdParts == ParseCommand(pipe)
        op       == cmdParts[1]
        args     == Tail(cmdParts)
        callArgs == args \o ProjectOutput(result)
        mod      == executeModule(cmdParts, callArgs)
        next     == CASE op = "select" -> selectStage(result, args)
                      [] op = "pp"     -> ppStage(result)
                      [] op = "tt"     -> ttStage(result)
                      [] OTHER         -> CarryForward(result, mod.res)
    IN  IF pipe = "" \/ cmdParts = <<>>
        THEN RunStages(pipeParts, k + 1, result, events)
        ELSE IF op \in {"select", "pp", "tt"}
        THEN RunStages(pipeParts, k + 1, next, Append(events, EvStage(op, args, result, next)))
        ELSE IF ~FindModule(op)
        THEN Outcome("error", "unknown pipeline operator or module: " \o op, EmptyResult,
               Append(events, EvFind(op)))
        ELSE IF mod.how = "error"
        THEN Outcome("error", mod.err, EmptyResult, events \o <<EvFind(op)>> \o mod.events)
        ELSE IF mod.how = "nil"
        THEN Outcome("ok", "", EmptyResult, events \o <<EvFind(op)>> \o mod.events)
        ELSE RunStages(pipeParts, k + 1, next,
               events \o <<EvFind(op)>> \o mod.events \o <<EvStage(op, callArgs, result, next)>>)

executePipeline(line, store) ==
  LET parts     == SplitN2(line, "|")
      firstPart == TrimSpace(parts[1])
      head      == PipeHead(firstPart, store)
      pr        == printResult(head.res)
  IN  IF firstPart = "" THEN Outcome("ok", "", EmptyResult, <<>>)
      ELSE IF head.how = "panic" THEN head
      ELSE IF head.how = "error" THEN head
      ELSE IF head.how = "nil" THEN Outcome("ok", "", EmptyResult, head.events)
      ELSE IF Len(parts) < 2
      THEN Outcome(pr.how, pr.err, EmptyResult, head.events \o pr.events)
      ELSE RunStages(Split(TrimSpace(parts[2]), "|"), 1, head.res, head.events)

(***************************************************************************)
(* The file system the shell sees: the script files by path, with their    *)
(* text, and the directories.  os.Stat succeeds on both.                   *)
(***************************************************************************)
Files ==
  ("ok.trex"    :> "# demo\nset a 1\n\necho $a\n") @@
  ("bad.trex"   :> "echo one\nnosuch\necho two") @@
  ("outer.trex" :> "bad.trex\necho after\nforloop 2 as $y do { echo $y }")

Dirs == {"modules"}

\* os.Stat(line) succeeds and the entry is no directory
IsScript(line) == line \in DOMAIN Files /\ line \notin Dirs

(***************************************************************************)
(* handleForLoop: the values of a range expression.                        *)
(***************************************************************************)
TrimAll(parts) == [i \in 1..Len(parts) |-> TrimSpace(parts[i])]

RECURSIVE NonEmpty(_)
NonEmpty(parts) ==
  IF parts = <<>> THEN <<>>
  ELSE IF parts[1] = "" THEN NonEmpty(Tail(parts))
  ELSE <<parts[1]>> \o NonEmpty(Tail(parts))

\* the body split on ";", each part trimmed, the blank ones dropped
BodyCmds(body) == NonEmpty(TrimAll(Split(body, ";")))

Values(ok, values, err) == [ok |-> ok, values |-> values, err |-> err]

\* the A..B form with the end left out (i < end in place of i <= end)
ForLoopValuesHalfOpen(rangeExpr) ==
  IF Contains(rangeExpr, "..")
  THEN LET parts == SplitN2(rangeExpr, "..")
           start == AtoiVal(parts[1])
           end   == AtoiVal(parts[2])
       IN  IF ~AtoiOk(parts[1]) \/ ~AtoiOk(parts[2])
           THEN Values(FALSE, <<>>, "invalid range: " \o rangeExpr)
           ELSE IF start <= end
           THEN Values(TRUE, [i \in 1..(end - start) |-> Itoa(start + i - 1)], "")
           ELSE Values(TRUE, [i \in 1..(start - end) |-> Itoa(start - i + 1)], "")
  ELSE IF Contains(rangeExpr, ",")
  THEN Values(TRUE, TrimAll(Split(rangeExpr, ",")), "")
  ELSE IF AtoiOk(rangeExpr)
  THEN Values(TRUE, [i \in 1..AtoiVal(rangeExpr) |-> Itoa(i - 1)], "")
  ELSE Values(FALSE, <<>>, "invalid range expression: " \o rangeExpr)

ForLoopValues(rangeExpr) ==
  IF Contains(rangeExpr, "..")
  THEN LET parts == SplitN2(rangeExpr, "..")
           start == AtoiVal(parts[1])
           end   == AtoiVal(parts[2])
       IN  IF ~AtoiOk(parts[1]) \/ ~AtoiOk(parts[2])
           THEN Values(FALSE, <<>>, "invalid range: " \o rangeExpr)
           ELSE IF start <= end
           THEN Values(TRUE, [i \in 1..(end - start + 1) |-> Itoa(start + i - 1)], "")
           ELSE Values(TRUE, [i \in 1..(start - end + 1) |-> Itoa(start - i + 1)], "")
  ELSE IF Contains(rangeExpr, ",")
  THEN Values(TRUE, TrimAll(Split(rangeExpr, ",")), "")
  ELSE IF AtoiOk(rangeExpr)
  THEN Values(TRUE, [i \in 1..AtoiVal(rangeExpr) |-> Itoa(i - 1)], "")
  ELSE Values(FALSE, <<>>, "invalid range expression: " \o rangeExpr)

(***************************************************************************)
(* handleForeach: the items of a list expression.  Stripping the quotes of *)
(* an item that is one quote character slices [1:0], which panics.         *)
(***************************************************************************)
StripQuotes(p) == IF IsQuoted(p) THEN SubSeq(p, 2, Len(p) - 1) ELSE p

ForeachPanics(listExpr) ==
  /\ ~(HasPrefix(listExpr, "[") /\ HasSuffix(listExpr, "]"))
  /\ Contains(listExpr, "|")
  /\ \E p \in {TrimSpace(q) : q \in {Split(listExpr, "|")[i] : i \in 1..Len(Split(listExpr, "|"))}} :
        IsQuoted(p) /\ Len(p) < 2

ForeachItems(listExpr) ==
  IF HasPrefix(listExpr, "[") /\ HasSuffix(listExpr, "]")
  THEN ParseCommand(TrimSpace(SubSeq(listExpr, 2, Len(listExpr) - 1)))
  ELSE IF Contains(listExpr, "|")
  THEN LET parts == TrimAll(Split(listExpr, "|"))
       IN  [i \in 1..Len(parts) |-> StripQuotes(parts[i])]
  ELSE <<Trim(listExpr, {" ", "\t", "\n", "\r", "\"", "'"})>>

(***************************************************************************)
(* The assignment forms of executeCommand.                                 *)
(***************************************************************************)
Assignment(form, name, val) == [form |-> form, name |-> name, val |-> val]

AssignForm(line) ==
  LET parts    == ParseCommand(line)
      valParts == SubSeq(parts, 3, Len(parts))
      m        == MatchAssign(line)
  IN  IF parts = <<>> THEN Assignment("none", "", "")
      ELSE IF parts[1] \in {"set", "let"} /\ Len(parts) >= 3
      THEN Assignment("setlet",
             IF HasPrefix(parts[2], "$") THEN Tail(parts[2]) ELSE parts[2],
             IF valParts[1] = "=" /\ Len(valParts) > 1
             THEN Join(Tail(valParts), " ") ELSE Join(valParts, " "))
      ELSE IF m.ok
      THEN Assignment("regex", m.name, TrimSpace(m.body))
      ELSE IF HasPrefix(parts[1], "$") /\ Len(parts) >= 2
      THEN Assignment("dollar", Tail(parts[1]), Join(Tail(parts), " "))
      ELSE Assignment("none", "", "")

\* trex_utils.HasPipe
HasPipe(line) == Contains(line, "|")

\* the decision with the pipe test made before the two loop patterns
HandlerPipeFirst(line) ==
  IF IsScript(line) THEN "file"
  ELSE IF AssignForm(line).form # "none" THEN "assign"
  ELSE IF HasPipe(line) THEN "pipeline"
  ELSE IF MatchForLoop(line).ok THEN "forloop"
  ELSE IF MatchForeach(line).ok THEN "foreach"
  ELSE "module"

(***************************************************************************)
(* executeCommand's decision: the handler that takes the line, by the      *)
(* order of the tests in the code, each ending in a return.                *)
(***************************************************************************)
Handler(line) ==
  IF IsScript(line) THEN "file"
  ELSE IF AssignForm(line).form # "none" THEN "assign"
  ELSE IF MatchForLoop(line).ok THEN "forloop"
  ELSE IF MatchForeach(line).ok THEN "foreach"
  ELSE IF HasPipe(line) THEN "pipeline"
  ELSE "module"

\* the single module call of executeCommand
moduleCall(line, store) ==
  LET parts == ParseCommand(line)
      cmd   == expandVars(parts[1], store)
      args  == MapExpand(Tail(parts), store)
      mod   == executeModule(Split(cmd, " "), args)
      pr    == printResult(mod.res)
  IN  IF parts = <<>> THEN Outcome("ok", "", EmptyResult, <<>>)
      ELSE IF mod.how = "error" THEN mod
      ELSE IF mod.how = "nil" THEN Outcome("ok", "", EmptyResult, mod.events)
      ELSE Outcome(pr.how, pr.err, EmptyResult, mod.events \o pr.events)

(***************************************************************************)
(* The lines a user may type at the prompt.                                *)
(***************************************************************************)
InputLines == {
  "ok.trex", "outer.trex", "modules", "\"\"", "  ", "exit",
  "set x 5", "y=$x", "x = a | b", "$z a b",
  "let = 5", "let $v = a b", "export y=1", "set w =", "set x", "x=@",
  "echo $x $y", "greet \"hello world\"", "nosuch a",
  "info | select a,c", "info | select a c", "info | select z", "info | select a , c | pp",
  "[1 2 3] | select foo", "'s t' | select a | pp", "5 | select a | tt", "list | select a",
  "info | nosuch | pp", "nosuch | pp", "echo a | brokenmodule | echo b", "brokenmodule | pp",
  "info | select a | echo k | tt", "quiet | select a",
  "ping | select a", "void | select a | pp", "' | pp",
  "5 | echo", "[1 2 3] | echo x y", "list | echo", "ping | echo z", "void | echo",
  "yes | echo", "'s t' | greet",
  "info | tt | pp", "info | pp | tt", "info | select a | pp | echo k",
  "echo \"a|b\"", "flagged",
  "forloop 1..2 as $n do { greet $n }",
  "forloop 2 as $i do { info | select a }",
  "forloop 0 as $x do { echo $x }",
  "forloop 1 as $x do { echo $y }",
  "forloop 1..2 as $x do { set w $x }",
  "forloop 1..3 as $x do { echo $x; nosuch; echo b }",
  "forloop 1..2 as $n do { set n 9; greet $n }",
  "forloop 3..1 as $i do { echo $i }",
  "forloop -1..1 as $i do { echo $i }",
  "forloop a,,b as $y do { echo $y }",
  "forloop 1..x,2 as $i do { echo $i }",
  "forloop k as $i do { echo $i }",
  "forloop 2 as $i do { }",
  "foreach [a b \"c d\"] as $x do { echo $x; greet $x }",
  "foreach \"x\"|\"y\" as $x do { echo $x }",
  "foreach \" a \" as $x do { echo $x }",
  "foreach 'q' as $y do { bad.trex; echo $y }",
  "foreach a|b as $x do { brokenmodule $x }",
  "foreach a|\" as $x do { echo $x }" }

\* the number of lines read at the prompt in one session
MaxLines == 2

(***************************************************************************)
(* The state.  stack is the Go call stack of the shell: the frames of Run, *)
(* executeCommand ("exec"), handleForLoop, handleForeach and ExecuteFile.  *)
(***************************************************************************)
VARIABLES
  top,       \* "main", "run", "batch", "exit" (os.Exit) or "panic"
  stack,     \* the frames, the running one last
  vars,      \* Shell.vars, the Variable Store
  ret,       \* the error returned by the call that returned last ("" is nil)
  trace,     \* the events of the current top-level command
  lastLoop,  \* how the loop that returned last went
  nread      \* the lines read at the prompt so far

all == <<top, stack, vars, ret, trace, lastLoop, nread>>

EmptyStore == [n \in {} |-> ""]

Frame(k, line, varName, values, cmds, vi, ci, wait, store0, t0, done) ==
  [k |-> k, line |-> line, varName |-> varName, values |-> values, cmds |-> cmds,
   vi |-> vi, ci |-> ci, wait |-> wait, store0 |-> store0, t0 |-> t0, done |-> done]

\* Shell.Run, waiting at the prompt or (wait) for executeCommand to return
RunFrame(wait) == Frame("run", "", "", <<>>, <<>>, 0, 0, wait, EmptyStore, 0, <<>>)

\* executeCommand(line), about to run
ExecFrame(line) == Frame("exec", line, "", <<>>, <<>>, 0, 0, FALSE, EmptyStore, 0, <<>>)

\* ExecuteFile(path): cmds are the lines, ci the index of the line that ran last
FileFrame(path) ==
  Frame("file", path, "", <<>>, Split(Files[path], "\n"), 0, 0, FALSE, EmptyStore, 0, <<>>)

\* handleForLoop / handleForeach in its loops: (vi, ci) is the sub-command
\* dispatched last; store0 is the Variable Store and t0 the length of the
\* trace at entry, done the positions dispatched so far
LoopFrame(k, line, varName, values, cmds, store0, t0) ==
  Frame(k, line, varName, values, cmds, 0, 0, FALSE, store0, t0, <<>>)

NoLoop ==
  [k |-> "", varName |-> "", err |-> "", before |-> EmptyStore, after |-> EmptyStore,
   values |-> <<>>, cmds |-> <<>>, done |-> <<>>, written |-> {}]

Top == stack[Len(stack)]

Pop == SubSeq(stack, 1, Len(stack) - 1)

Running(k) == top \in {"run", "batch"} /\ stack # <<>> /\ Top.k \in k

Init ==
  /\ top = "main"
  /\ stack = <<>>
  /\ vars = EmptyStore
  /\ ret = ""
  /\ trace = <<>>
  /\ lastLoop = NoLoop
  /\ nread = 0

(***************************************************************************)
(* main: the interactive shell, or a script named on the command line.     *)
(***************************************************************************)
Main ==
  /\ top = "main"
  /\ \/ top' = "run" /\ stack' = <<RunFrame(FALSE)>>
     \/ \E path \in DOMAIN Files : top' = "batch" /\ stack' = <<FileFrame(path)>>
  /\ UNCHANGED <<vars, ret, trace, lastLoop, nread>>

(***************************************************************************)
(* Shell.Run: one turn of the loop, up to the call of executeCommand, and  *)
(* then from its return.                                                   *)
(***************************************************************************)
Run ==
  /\ Running({"run"}) /\ ~Top.wait /\ nread < MaxLines
  /\ \E raw \in InputLines :
       LET line == TrimSpace(raw)
       IN  IF line = ""
           THEN UNCHANGED <<top, stack, ret, trace>>
           ELSE IF line \in {"exit", "quit"}
           THEN top' = "exit" /\ stack' = <<>> /\ UNCHANGED <<ret, trace>>
           ELSE /\ stack' = <<RunFrame(TRUE), ExecFrame(line)>>
                /\ trace' = <<EvHistory(line)>>
                /\ ret' = ""
                /\ top' = top
  /\ nread' = nread + 1
  /\ lastLoop' = NoLoop
  /\ UNCHANGED vars

\* the loop left when executeCommand returned an error
RunReturnEnds ==
  /\ Running({"run"}) /\ Top.wait
  /\ IF ret # ""
     THEN top' = "exit" /\ stack' = <<>> /\ trace' = Append(trace, EvDiag("error", ret))
     ELSE top' = top /\ stack' = <<RunFrame(FALSE)>> /\ trace' = trace
  /\ UNCHANGED <<vars, ret, lastLoop, nread>>

RunReturn ==
  /\ Running({"run"}) /\ Top.wait
  /\ stack' = <<RunFrame(FALSE)>>
  /\ trace' = IF ret # "" THEN Append(trace, EvDiag("error", ret)) ELSE trace
  /\ UNCHANGED <<top, vars, ret, lastLoop, nread>>

(***************************************************************************)
(* executeCommand(line), one action for each handler it may choose.        *)
(***************************************************************************)
Return(err, events) ==
  /\ stack' = Pop
  /\ ret' = err
  /\ trace' = trace \o events

Panic(events) ==
  /\ top' = "panic"
  /\ trace' = trace \o events
  /\ UNCHANGED <<stack, ret>>

Finish(o, handler) ==
  IF o.how = "panic"
  THEN Panic(<<EvHandler(handler, Top.line)>> \o o.events)
  ELSE Return(o.err, <<EvHandler(handler, Top.line)>> \o o.events) /\ top' = top

ExecFile ==
  /\ Running({"exec"}) /\ Handler(Top.line) = "file"
  /\ stack' = Append(Pop, FileFrame(Top.line))
  /\ trace' = Append(trace, EvHandler("file", Top.line))
  /\ UNCHANGED <<top, vars, ret, lastLoop, nread>>

ExecAssign ==
  /\ Running({"exec"}) /\ Handler(Top.line) = "assign"
  /\ LET a == AssignForm(Top.line)
     IN  /\ vars' = Bind(vars, a.name, a.val)
         /\ Return("", <<EvHandler("assign", Top.line), EvAssign(a.name, a.val)>>)
  /\ UNCHANGED <<top, lastLoop, nread>>

ExecForLoop ==
  /\ Running({"exec"}) /\ Handler(Top.line) = "forloop"
  /\ LET m  == MatchForLoop(Top.line)
         rv == ForLoopValues(m.expr)
     IN  IF rv.ok
         THEN /\ stack' = Append(Pop, LoopFrame("forloop", Top.line, m.name, rv.values,
                                             BodyCmds(m.body), vars, Len(trace) + 1))
              /\ trace' = Append(trace, EvHandler("forloop", Top.line))
              /\ ret' = ret
         ELSE Return(rv.err, <<EvHandler("forloop", Top.line)>>)
  /\ UNCHANGED <<top, vars, lastLoop, nread>>

ExecForeach ==
  /\ Running({"exec"}) /\ Handler(Top.line) = "foreach"
  /\ LET m        == MatchForeach(Top.line)
         listExpr == TrimSpace(m.expr)
     IN  IF ForeachPanics(listExpr)
         THEN Panic(<<EvHandler("foreach", Top.line)>>)
         ELSE /\ stack' = Append(Pop, LoopFrame("foreach", Top.line, m.name,
                                             ForeachItems(listExpr), BodyCmds(m.body), vars,
                                             Len(trace) + 1))
              /\ trace' = Append(trace, EvHandler("foreach", Top.line))
              /\ UNCHANGED <<top, ret>>
  /\ UNCHANGED <<vars, lastLoop, nread>>

ExecPipeline ==
  /\ Running({"exec"}) /\ Handler(Top.line) = "pipeline"
  /\ Finish(executePipeline(Top.line, vars), "pipeline")
  /\ UNCHANGED <<vars, lastLoop, nread>>

ExecModule ==
  /\ Running({"exec"}) /\ Handler(Top.line) = "module"
  /\ Finish(moduleCall(Top.line, vars), "module")
  /\ UNCHANGED <<vars, lastLoop, nread>>

(***************************************************************************)
(* The loops of handleForLoop and handleForeach:                           *)
(*   for _, val := range values { s.vars[varName] = val                    *)
(*     for _, cmd := range cmds { expanded := s.expandVars(cmd)            *)
(*       if err := s.executeCommand(expanded, verbose); err != nil {       *)
(*         return true, err } } }                                          *)
(*   delete(s.vars, varName)                                               *)
(***************************************************************************)
LoopKinds == {"forloop", "foreach"}

\* the error of a sub-command ignored (the loop goes on)
LoopNeverFails(f, err) == FALSE

\* the sub-command that returned last has failed
LoopFails(f, err) == f.wait /\ err # ""

\* the two loops nested the other way round: each sub-command over all the
\* values before the next sub-command
NextPosByCommand(f) ==
  IF f.cmds = <<>> \/ f.values = <<>> THEN <<0, 0>>
  ELSE IF f.vi = 0 THEN <<1, 1>>
  ELSE IF f.vi < Len(f.values) THEN <<f.vi + 1, f.ci>>
  ELSE IF f.ci < Len(f.cmds) THEN <<1, f.ci + 1>>
  ELSE <<0, 0>>

\* the position of the next sub-command after (vi, ci); vi = 0 when none
NextPos(f) ==
  IF f.cmds = <<>> THEN <<0, 0>>
  ELSE IF f.vi >= 1 /\ f.ci < Len(f.cmds) THEN <<f.vi, f.ci + 1>>
  ELSE IF f.vi < Len(f.values) THEN <<f.vi + 1, 1>>
  ELSE <<0, 0>>

\* the names written since the loop was entered, from the trace
Written(f, tr) ==
  {tr[i].name : i \in {j \in (f.t0 + 1)..Len(tr) : tr[j].ev \in {"assign", "bind", "unset"}}}

LoopSummary(f, err, after, tr) ==
  [k |-> f.k, varName |-> f.varName, err |-> err, before |-> f.store0, after |-> after,
   values |-> f.values, cmds |-> f.cmds, done |-> f.done,
   written |-> Written(f, tr) \ {f.varName}]

\* the binding made when a value's iteration starts
LoopBind(f, pos, store) ==
  IF pos[2] = 1 THEN Bind(store, f.varName, f.values[pos[1]]) ELSE store

LoopNext ==
  /\ Running(LoopKinds) /\ ~LoopFails(Top, ret) /\ NextPos(Top)[1] # 0
  /\ LET pos      == NextPos(Top)
         bound    == LoopBind(Top, pos, vars)
         expanded == expandVars(Top.cmds[pos[2]], bound)
     IN  /\ vars' = bound
         /\ stack' = Pop \o <<[Top EXCEPT !.vi = pos[1], !.ci = pos[2], !.wait = TRUE,
                                          !.done = Append(Top.done, pos)],
                              ExecFrame(expanded)>>
         /\ trace' = IF pos[2] = 1
                     THEN Append(trace, EvBind(Top.varName, Top.values[pos[1]]))
                     ELSE trace
  /\ UNCHANGED <<top, ret, lastLoop, nread>>

\* no sub-command is left: with an empty body every value is still bound in
\* turn; then the loop variable is deleted
LoopEnd ==
  /\ Running(LoopKinds) /\ ~LoopFails(Top, ret) /\ NextPos(Top)[1] = 0
  /\ vars' = Unbind(vars, Top.varName)
  /\ Return("", <<EvUnset(Top.varName)>>)
  /\ lastLoop' = LoopSummary(Top, "", vars', trace')
  /\ UNCHANGED <<top, nread>>

\* return true, err
LoopAbort ==
  /\ Running(LoopKinds) /\ LoopFails(Top, ret)
  /\ Return(ret, <<>>)
  /\ lastLoop' = LoopSummary(Top, ret, vars, trace)
  /\ UNCHANGED <<top, vars, nread>>

(***************************************************************************)
(* ExecuteFile(path): the lines in order, blank lines and comments passed  *)
(* over; the first line that returns an error ends the run.                *)
(***************************************************************************)
Runnable(raw) == TrimSpace(raw) # "" /\ ~HasPrefix(TrimSpace(raw), "#")

\* the index of the next line to run after line ci; 0 when none
NextLine(f) ==
  LET left == {j \in (f.ci + 1)..Len(f.cmds) : Runnable(f.cmds[j])}
  IN  IF left = {} THEN 0 ELSE SetMin(left)

\* os.Exit(0) in main once the script named on the command line has run
AfterFile == IF top = "batch" /\ Len(stack) = 1 THEN "exit" ELSE top

FileNext ==
  /\ Running({"file"}) /\ ~(Top.wait /\ ret # "") /\ NextLine(Top) # 0
  /\ LET j    == NextLine(Top)
         line == TrimSpace(Top.cmds[j])
     IN  /\ stack' = Pop \o <<[Top EXCEPT !.ci = j, !.wait = TRUE], ExecFrame(line)>>
         /\ trace' = Append(trace, EvHistory(line))
  /\ UNCHANGED <<top, vars, ret, lastLoop, nread>>

FileEnd ==
  /\ Running({"file"}) /\ ~(Top.wait /\ ret # "") /\ NextLine(Top) = 0
  /\ Return("", <<>>)
  /\ top' = AfterFile
  /\ UNCHANGED <<vars, lastLoop, nread>>

\* the failing line is reported (SCRIPT_ERROR, with path and line number)
\* and ExecuteFile returns; it has no result, and executeCommand returns nil
FileAbort ==
  /\ Running({"file"}) /\ Top.wait /\ ret # ""
  /\ stack' = Pop
  /\ ret' = ""
  /\ trace' = Append(trace, EvDiag("SCRIPT_ERROR", Top.line \o ":" \o Itoa(Top.ci)))
  /\ top' = AfterFile
  /\ UNCHANGED <<vars, lastLoop, nread>>

Next ==
  \/ Main
  \/ Run
  \/ RunReturn
  \/ ExecFile
  \/ ExecAssign
  \/ ExecForLoop
  \/ ExecForeach
  \/ ExecPipeline
  \/ ExecModule
  \/ LoopNext
  \/ LoopEnd
  \/ LoopAbort
  \/ FileNext
  \/ FileEnd
  \/ FileAbort

Spec == Init /\ [][Next]_all

\* Run is a loop without a way out but os.Exit: when executeCommand has
\* returned, the loop goes on
SpecFair == Spec /\ WF_all(RunReturn)

(***************************************************************************)
(* Properties.  A step of executeCommand adds its events to the trace; the *)
(* first of them names the handler that took the line.                     *)
(***************************************************************************)
\* the events added by the step
NewEvents == SubSeq(trace', Len(trace) + 1, Len(trace'))

\* executeCommand is about to run on Top.line
Dispatching == Running({"exec"})

\* the step is executeCommand's, and handler h took the line
TakenBy(h) ==
  /\ Dispatching
  /\ NewEvents # <<>>
  /\ NewEvents[1].ev = "handler" /\ NewEvents[1].name = h

InTrace(P(_)) == \E i \in 1..Len(trace) : P(trace[i])

Priority == <<"file", "assign", "forloop", "foreach", "pipeline", "module">>

\* what makes a line a candidate of each handler
Takes(h, line) ==
  CASE h = "file"     -> IsScript(line)
    [] h = "assign"   -> AssignForm(line).form # "none"
    [] h = "forloop"  -> MatchForLoop(line).ok
    [] h = "foreach"  -> MatchForeach(line).ok
    [] h = "pipeline" -> HasPipe(line)
    [] OTHER          -> TRUE

FirstMatch(line) == Priority[SetMin({i \in 1..Len(Priority) : Takes(Priority[i], line)})]

C1_Step ==
  Dispatching =>
    LET line == Top.line
        new  == NewEvents
        h    == FirstMatch(line)
    IN  /\ {i \in 1..Len(new) : new[i].ev = "handler"} = {1}
        /\ new[1].name = h /\ new[1].args = <<line>>
        /\ h = "file" => stack'[Len(stack')].k = "file" /\ Len(new) = 1
        /\ h = "assign" =>
             /\ stack' = Pop
             /\ \A i \in 1..Len(new) : new[i].ev \in {"handler", "assign"}
        /\ h \in {"forloop", "foreach"} =>
             /\ Len(new) = 1
             /\ \/ stack'[Len(stack')].k = h
                \/ stack' = Pop /\ ret' # ""
                \/ top' = "panic"
        /\ h \in {"pipeline", "module"} =>
             /\ stack' = Pop \/ top' = "panic"
             /\ \A i \in 1..Len(new) : new[i].ev \notin {"assign", "bind", "unset"}
             /\ vars' = vars
        /\ h = "module" => \A i \in 1..Len(new) : new[i].ev # "stage"

\* C1: every line handed to executeCommand is taken by exactly one handler,
\* the first in the order file, assignment, forloop, foreach, pipeline,
\* single module call whose test the line passes; a line taken by an earlier
\* handler is not read by a later one (a loop whose body holds "|" runs as a
\* loop, an assignment whose value holds "|" looks up and invokes no module).
C1_FirstMatchWins == [][C1_Step]_all

\* a forloop whose body holds "|" has been taken by the forloop handler, and
\* its loops are running
C1_Witness ==
  /\ stack # <<>> /\ Top.k = "forloop"
  /\ \E i \in 1..Len(trace) :
       /\ trace[i].ev = "handler" /\ trace[i].name = "forloop"
       /\ HasPipe(trace[i].args[1])

\* a module that is not found, or one whose execution fails
Failed(e) ==
  \/ e.ev = "find" /\ ~FindModule(e.name)
  \/ e.ev = "exec" /\ ExecuteErr(e.name, e.args) # ""

C2_Step ==
  TakenBy("pipeline") =>
    LET new == NewEvents
    IN  \A i \in 1..Len(new) :
          Failed(new[i]) =>
            /\ \A j \in (i + 1)..Len(new) : new[j].ev = "diag"
            /\ \A j \in 1..Len(new) : new[j].ev # "print"
            /\ ret' # ""
            /\ stack' = Pop /\ top' = top

\* C2: when the head or a later stage of a pipeline fails (module not found,
\* execution failed, unknown stage name), nothing is looked up, invoked or
\* applied after it, no Result is printed, and executePipeline returns an
\* error.
C2_PipelineAborts == [][C2_Step]_all

\* a pipeline whose head ran, and whose later stage failed, has returned
C2_Witness ==
  /\ ret # "" /\ stack # <<>> /\ Top.k = "run"
  /\ \E i, j, k \in 1..Len(trace) :
       /\ i < j /\ j < k
       /\ trace[i].ev = "handler" /\ trace[i].name = "pipeline"
       /\ trace[j].ev = "exec" /\ ~Failed(trace[j])
       /\ Failed(trace[k])
       /\ \A n \in i..Len(trace) : trace[n].ev # "print"

IsMapping(result) == "output" \in DOMAIN result /\ result["output"].t = "map"

IsSelect(e) == e.ev = "stage" /\ e.name = "select"

\* the field names written in the tokens of a select stage: each token split
\* on commas, the pieces trimmed
RequestedFields(args) ==
  {f \in UNION {{TrimSpace(Split(args[i], ",")[j]) : j \in 1..Len(Split(args[i], ","))} :
                  i \in 1..Len(args)} : f # ""}

Restrict(m, keys) == [k \in DOMAIN m \cap keys |-> m[k]]

\* C3 as stated: a select stage applied to an output that is a mapping
\* leaves the mapping restricted to the requested keys that exist, the field
\* names being separated by commas, in one token or several.
C3_SelectByCommas ==
  \A i \in 1..Len(trace) :
    (IsSelect(trace[i]) /\ IsMapping(trace[i].pre)) =>
      trace[i].res = SetKey(trace[i].pre, "output",
                            MapV(Restrict(trace[i].pre["output"].m,
                                          RequestedFields(trace[i].args))))

Completed(l) == l.k \in LoopKinds /\ l.err = ""

Aborted(l) == l.k \in LoopKinds /\ l.err # ""

\* C5: after a forloop or foreach that completed without error the loop
\* variable is unbound, whatever it was before the loop; every other name
\* that the body did not write is bound as before, or unbound as before.
C5_LoopVarUnbound ==
  Completed(lastLoop) =>
    /\ lastLoop.varName \notin DOMAIN lastLoop.after
    /\ \A n \in (DOMAIN lastLoop.before \cup DOMAIN lastLoop.after)
                  \ (lastLoop.written \cup {lastLoop.varName}) :
         /\ n \in DOMAIN lastLoop.before /\ n \in DOMAIN lastLoop.after
         /\ lastLoop.before[n] = lastLoop.after[n]

\* a loop over no value has completed, whose variable was bound before
C5_Witness ==
  /\ Completed(lastLoop)
  /\ lastLoop.varName \in DOMAIN lastLoop.before
  /\ lastLoop.values = <<>>
  /\ lastLoop.varName \notin DOMAIN vars

\* C6 as stated: after a loop that was aborted by a failing sub-command the
\* loop variable is unbound.
C6_UnboundAfterAbort ==
  Aborted(lastLoop) => lastLoop.varName \notin DOMAIN lastLoop.after

\* a sub-command of the loop on top has returned an error
SubCommandFailed == Running(LoopKinds) /\ Top.wait /\ ret # ""

\* C7: once a sub-command of a loop has returned an error, the next thing
\* the loop does is to return that error: no sub-command is dispatched, and
\* the Variable Store and everything done so far stay as they are.
C7_FailFast ==
  [][SubCommandFailed =>
       /\ stack' = Pop
       /\ ret' = ret
       /\ vars' = vars
       /\ trace' = trace]_all

\* a loop has returned the error of its second sub-command, with the first
\* sub-command's effect kept and the other values not visited
C7_Witness ==
  /\ Aborted(lastLoop) /\ ret = lastLoop.err
  /\ lastLoop.done = <<<<1, 1>>, <<1, 2>>>>
  /\ Len(lastLoop.values) = 3
  /\ InTrace(LAMBDA e : e.ev = "print")

\* the positions (value, sub-command) of n values and m sub-commands, in the
\* order (1,1), (1,2), ..., (1,m), (2,1), ...
ProductOrder(n, m) ==
  [p \in 1..(n * m) |-> <<((p - 1) \div m) + 1, ((p - 1) % m) + 1>>]

IsPrefix(a, b) == Len(a) <= Len(b) /\ a = SubSeq(b, 1, Len(a))

InOrder(f) == IsPrefix(f.done, ProductOrder(Len(f.values), Len(f.cmds)))

\* C8 as stated: the sub-commands run in the order (v1,c1), (v1,c2), ...,
\* (v2,c1), ...; while (vi,cj) runs the loop variable is bound to vi, and cj
\* was expanded with that binding.
C8_BoundWhileRunning ==
  \A i \in 1..Len(stack) :
    stack[i].k \in LoopKinds =>
      /\ InOrder(stack[i])
      /\ (stack[i].wait /\ i < Len(stack)) =>
           /\ stack[i].varName \in DOMAIN vars
           /\ vars[stack[i].varName] = stack[i].values[stack[i].vi]
           /\ stack[i + 1].k = "exec" =>
                stack[i + 1].line =
                  expandVars(stack[i].cmds[stack[i].ci],
                             Bind(vars, stack[i].varName, stack[i].values[stack[i].vi]))

C8_Step ==
  /\ (Running(LoopKinds) /\ Len(stack') = Len(stack) + 1) =>
       LET f == Top
           g == stack'[Len(stack)]
           e == stack'[Len(stack')]
       IN  /\ g.done = Append(f.done, <<g.vi, g.ci>>)
           /\ InOrder(g)
           /\ g.ci = 1 => vars' = Bind(vars, f.varName, f.values[g.vi])
           /\ g.ci # 1 => vars' = vars
           /\ e.k = "exec" /\ e.line = expandVars(f.cmds[g.ci], vars')
  /\ (Running(LoopKinds) /\ stack' = Pop /\ ret' = "") =>
       Top.done = ProductOrder(Len(Top.values), Len(Top.cmds))

\* C8 amended: the n*m sub-commands are dispatched in the order (v1,c1),
\* (v1,c2), ..., (v1,cm), (v2,c1), ...; the loop variable is bound to vi when
\* (vi,c1) is dispatched and is not bound again before (vi+1,c1); each cj is
\* expanded with the Variable Store as it is when cj is dispatched; a loop
\* that returns without error has dispatched all n*m.
C8_OrderAndBinding == [][C8_Step]_all

\* forloop 1..2 over one greet has invoked greet with 1 and then with 2
C8_Witness ==
  /\ Completed(lastLoop) /\ lastLoop.done = <<<<1, 1>>, <<2, 1>>>>
  /\ \E i, j \in 1..Len(trace) :
       /\ i < j
       /\ trace[i].ev = "exec" /\ trace[i].name = "greet" /\ trace[i].args = <<"1">>
       /\ trace[j].ev = "exec" /\ trace[j].name = "greet" /\ trace[j].args = <<"2">>

\* A, A+1, ..., B when A <= B and A, A-1, ..., B otherwise, as decimal texts
Span(a, b) ==
  IF a <= b THEN [i \in 1..(b - a + 1) |-> Itoa(a + i - 1)]
  ELSE [i \in 1..(a - b + 1) |-> Itoa(a - i + 1)]

RangeLeft(e) == SubSeq(e, 1, Index(e, "..") - 1)

RangeRight(e) == SubSeq(e, Index(e, "..") + 2, Len(e))

IsIntRange(e) == Contains(e, "..") /\ AtoiOk(RangeLeft(e)) /\ AtoiOk(RangeRight(e))

CountValues(e) == IF AtoiVal(e) <= 0 THEN <<>> ELSE Span(0, AtoiVal(e) - 1)

\* the forms in the order stated, the first that fits deciding
StatedRange(e) ==
  IF IsIntRange(e) THEN Values(TRUE, Span(AtoiVal(RangeLeft(e)), AtoiVal(RangeRight(e))), "")
  ELSE IF Contains(e, ",") THEN Values(TRUE, TrimAll(Split(e, ",")), "")
  ELSE IF AtoiOk(e) THEN Values(TRUE, CountValues(e), "")
  ELSE Values(FALSE, <<>>, "invalid range")

\* an expression that holds ".." is read as A..B and as nothing else
AmendedRange(e) ==
  IF Contains(e, "..")
  THEN IF IsIntRange(e)
       THEN Values(TRUE, Span(AtoiVal(RangeLeft(e)), AtoiVal(RangeRight(e))), "")
       ELSE Values(FALSE, <<>>, "invalid range")
  ELSE IF Contains(e, ",") THEN Values(TRUE, TrimAll(Split(e, ",")), "")
  ELSE IF AtoiOk(e) THEN Values(TRUE, CountValues(e), "")
  ELSE Values(FALSE, <<>>, "invalid range")

\* the forloop handler's step gives the values, or the error, of r
RangeStep(r) ==
  /\ vars' = vars
  /\ Len(NewEvents) = 1
  /\ IF r.ok
     THEN /\ Len(stack') = Len(stack)
          /\ stack'[Len(stack')].k = "forloop"
          /\ stack'[Len(stack')].values = r.values
          /\ stack'[Len(stack')].done = <<>>
     ELSE /\ stack' = Pop
          /\ HasPrefix(ret', r.err)

\* C9 as stated: the range expression is read by the first form that fits:
\* A..B with integers A and B, else a comma list, else a single integer;
\* any other expression is an invalid-range error.
C9_FirstFittingForm ==
  [][TakenBy("forloop") => RangeStep(StatedRange(MatchForLoop(Top.line).expr))]_all

\* C9 amended: an expression that holds ".." is split at the first ".." and
\* gives A, A+1, ..., B (A <= B) or A, A-1, ..., B (otherwise) when both
\* sides are integers, and an invalid-range error when one is not, a comma
\* in it notwithstanding; without ".." a comma list gives its trimmed items
\* in order, a single integer N gives 0..N-1 (nothing when N <= 0), anything
\* else the error.  On the error no sub-command is executed and the
\* Variable Store is unchanged.
C9_RangeForms ==
  [][TakenBy("forloop") => RangeStep(AmendedRange(MatchForLoop(Top.line).expr))]_all

\* an expression with ".." and a comma, one side no integer, was refused
C9_Witness ==
  /\ ret = "invalid range: 1..x,2"
  /\ vars = EmptyStore
  /\ trace[Len(trace)].ev = "handler" /\ trace[Len(trace)].name = "forloop"

Quotes == {"\"", "'"}

\* p without one matching pair of quotes around it
StripPair(p) ==
  IF Len(p) >= 2 /\ Ch(p, 1) \in Quotes /\ Ch(p, Len(p)) = Ch(p, 1)
  THEN SubSeq(p, 2, Len(p) - 1) ELSE p

StatedItems(e) ==
  IF HasPrefix(e, "[") /\ HasSuffix(e, "]")
  THEN ParseCommand(TrimSpace(SubSeq(e, 2, Len(e) - 1)))
  ELSE IF Contains(e, "|")
  THEN [i \in 1..Len(Split(e, "|")) |-> StripPair(TrimSpace(Split(e, "|")[i]))]
  ELSE <<Trim(e, Quotes)>>

\* C10 as stated: the foreach handler yields the tokens of a bracketed list,
\* else the "|"-separated items, each trimmed and stripped of one matching
\* pair of quotes, else the trimmed expression stripped of the quote
\* characters around it, and visits them in that order.
C10_ForeachItems ==
  [][TakenBy("foreach") =>
       /\ top' # "panic"
       /\ stack'[Len(stack')].k = "foreach"
       /\ stack'[Len(stack')].values = StatedItems(TrimSpace(MatchForeach(Top.line).expr))]_all

\* the text the command in executeCommand was written as: the sub-command
\* of the loop body when a loop called it, else the line itself
SourceText ==
  IF Len(stack) > 1 /\ stack[Len(stack) - 1].k \in LoopKinds
  THEN LET f == stack[Len(stack) - 1] IN TrimSpace(f.cmds[f.ci])
  ELSE Top.line

\* the tokens of the command that a module call or a pipeline head runs
SourceTokens ==
  ParseCommand(IF HasPipe(SourceText) THEN TrimSpace(SplitN2(SourceText, "|")[1])
               ELSE SourceText)

IsExec(e) == e.ev = "exec"

FirstExec(es) == es[SetMin({i \in 1..Len(es) : IsExec(es[i])})]

\* n is bound to a text that holds a reference
HoldsReference(n) == n \in DOMAIN vars /\ Contains(vars[n], "$")

C12_Step ==
  (Dispatching /\ (TakenBy("module") \/ TakenBy("pipeline"))
     /\ \E i \in 1..Len(NewEvents) : IsExec(NewEvents[i]))
  => LET toks == SourceTokens
         e    == FirstExec(NewEvents)
     IN  \A i \in 2..Len(toks) : \A n \in DOMAIN vars :
           (toks[i] \in {Dollar(n), Braced(n)} /\ HoldsReference(n)
              /\ Len(e.args) = Len(toks) - 1)
           => e.args[i - 1] = vars[n]

\* C12: expansion is single-pass: an argument $x whose value holds a
\* reference $y reaches the module as the value of x, with $y still in it,
\* in a top-level module call, in a pipeline head and in a sub-command of a
\* loop body.
C12_SinglePass == [][C12_Step]_all

\* name n has the same binding, or none, before and after the step
Untouched(n) ==
  /\ n \in DOMAIN vars <=> n \in DOMAIN vars'
  /\ n \in DOMAIN vars => vars'[n] = vars[n]

C13_Step ==
  TakenBy("assign") =>
    /\ \A i \in 1..Len(NewEvents) : NewEvents[i].ev \in {"handler", "assign"}
    /\ \E n \in DOMAIN vars' :
         /\ Contains(Top.line, n)
         /\ HasSuffix(TrimSpace(Top.line), vars'[n])
         /\ \A m \in (DOMAIN vars \cup DOMAIN vars') \ {n} : Untouched(m)

\* C13: a line taken as an assignment changes the binding of one name of
\* the line and nothing else: no module is looked up or invoked, every other
\* name keeps its binding, and the value stored is the text the line ends
\* with, its $references not expanded.
C13_AssignmentFrame == [][C13_Step]_all

\* y=$x was typed with x bound to 5, and y holds the text $x
C13_Witness ==
  /\ Len(trace) >= 2
  /\ trace[Len(trace)] = EvAssign("y", "$x")
  /\ vars = [x |-> "5", y |-> "$x"]

Fits(name, val) == [fits |-> TRUE, name |-> name, val |-> val]

NoFit == [fits |-> FALSE, name |-> "", val |-> ""]

IsName(w) == w # "" /\ IsNameStart(Ch(w, 1)) /\ \A i \in 1..Len(w) : IsNameChar(Ch(w, i))

Words(text) == NonEmpty(Split(text, " "))

\* form 1: set/let NAME VALUE...
SetLetForm(line) ==
  LET t == ParseCommand(line)
  IN  IF Len(t) >= 3 /\ t[1] \in {"set", "let"}
      THEN Fits(IF Ch(t[2], 1) = "$" THEN SubSeq(t[2], 2, Len(t[2])) ELSE t[2],
                Join(SubSeq(t, IF t[3] = "=" /\ Len(t) > 3 THEN 4 ELSE 3, Len(t)), " "))
      ELSE NoFit

\* form 2: the whole line is NAME=VALUE or export NAME=VALUE
WholeLineForm(line) ==
  LET eq    == Index(line, "=")
      left  == Words(SubSeq(line, 1, eq - 1))
      right == SubSeq(line, eq + 1, Len(line))
  IN  IF /\ eq > 0 /\ right # ""
         /\ \/ Len(left) = 1 /\ IsName(left[1])
            \/ Len(left) = 2 /\ left[1] = "export" /\ IsName(left[2])
      THEN Fits(left[Len(left)], TrimSpace(right))
      ELSE NoFit

\* form 3: $NAME value...
DollarForm(line) ==
  LET t == ParseCommand(line)
  IN  IF Len(t) >= 2 /\ Ch(t[1], 1) = "$"
      THEN Fits(SubSeq(t[1], 2, Len(t[1])), Join(SubSeq(t, 2, Len(t)), " "))
      ELSE NoFit

StatedAssign(line) ==
  IF SetLetForm(line).fits THEN SetLetForm(line)
  ELSE IF WholeLineForm(line).fits THEN WholeLineForm(line)
  ELSE DollarForm(line)

C14_Step ==
  (Dispatching /\ ~IsScript(Top.line)) =>
    LET st == StatedAssign(Top.line)
    IN  IF st.fits
        THEN /\ TakenBy("assign")
             /\ NewEvents = <<EvHandler("assign", Top.line), EvAssign(st.name, st.val)>>
             /\ st.name \in DOMAIN vars' /\ vars'[st.name] = st.val
        ELSE ~TakenBy("assign")

\* C14: a line is an assignment when it fits one of three forms, tried in
\* this order: set/let NAME VALUE... (a leading $ of NAME stripped, an "="
\* token after NAME skipped when more tokens follow, the other tokens
\* joined by one space), then the whole line NAME=VALUE or export
\* NAME=VALUE (the trimmed rest after "=" stored), then $NAME value...;
\* the first form that fits gives the name and the value stored.
C14_AssignForms == [][C14_Step]_all

\* the head of the pipeline in Top.line and the first token after the "|"
HeadText == TrimSpace(SplitN2(Top.line, "|")[1])

FirstStageOp ==
  LET t == ParseCommand(TrimSpace(Split(SplitN2(Top.line, "|")[2], "|")[1]))
  IN  IF t = <<>> THEN "" ELSE t[1]

Inner(text) == SubSeq(text, 2, Len(text) - 1)

IsListLiteral(h) == Ch(h, 1) = "[" /\ Ch(h, Len(h)) = "]"

IsTextLiteral(h) == h # "" /\ Ch(h, 1) \in {"\"", "'"} /\ Ch(h, Len(h)) = Ch(h, 1)

IsNumberLiteral(h) == IsDigits(h)

StatedHead(h) ==
  IF IsListLiteral(h) THEN LiteralResult(StrsV(ParseCommand(TrimSpace(Inner(h)))))
  ELSE IF IsTextLiteral(h) THEN LiteralResult(StrV(Inner(h)))
  ELSE LiteralResult(NumV(h))

C17_Step ==
  (Dispatching /\ Handler(Top.line) = "pipeline" /\ HeadText # "") =>
    LET h    == HeadText
        toks == ParseCommand(h)
        new  == NewEvents
    IN  IF IsListLiteral(h) \/ IsTextLiteral(h) \/ IsNumberLiteral(h)
        THEN FirstStageOp \in {"select", "pp", "tt"} =>
               /\ Len(new) >= 2
               /\ new[2].ev = "stage" /\ new[2].pre = StatedHead(h)
        ELSE toks # <<>> =>
               /\ Len(new) >= 2
               /\ new[2] = EvFind(expandVars(toks[1], vars))
               /\ FindModule(new[2].name) =>
                    /\ Len(new) >= 3
                    /\ new[3] = EvExec(new[2].name, MapExpand(Tail(toks), vars))

\* C17: a pipeline head that is a literal is evaluated without a module:
\* [ ... ] gives the tokens of the inner text, a text between two equal
\* quote marks gives the text without them, a number gives the number, each
\* with status success; any other head is tokenized, its command name and
\* arguments are expanded, and it is invoked as a module.
C17_HeadForms == [][C17_Step]_all

(***************************************************************************)
(* Shell.expandVars on its own.  An input is put together from pieces: a   *)
(* reference $name or ${name}, or text that is no reference; the store is  *)
(* one the shell can reach by assignments.                                 *)
(***************************************************************************)
ExpandNames == {"x", "y", "undefined"}

TextPieces == {"ip.", ".net", " ", "$1", "a$", "${x "}

RefPieces == {"$x", "${x}", "${y}", "$undefined"}

\* the pieces an input is made of, at most
MaxPieces == 3

PieceSeqs == UNION {[1..n -> TextPieces \cup RefPieces] : n \in 0..MaxPieces}

\* no piece runs into the next one: a $name, or text that ends in "$", is
\* not followed by a name character
Separate(ps) ==
  \A i \in 1..(Len(ps) - 1) :
    (ps[i] \in {Dollar(n) : n \in ExpandNames} \/ HasSuffix(ps[i], "$"))
      => ~IsNameChar(Ch(ps[i + 1], 1))

ExpandStores ==
  {EmptyStore, [x |-> "5"], [x |-> "$y", y |-> "7"], [x |-> "a b", y |-> ""]}

\* expandVars called on the text of the pieces
ExpandFrame(ps) ==
  Frame("expand", Join(ps, ""), "", <<>>, ps, 0, 0, FALSE, EmptyStore, 0, <<>>)

\* a function called on its own: fn(args) gave the text out
EvCall(fn, args, out) ==
  Event("call", fn, args, EmptyResult, LiteralResult(StrV(out)), "")

InitExpand ==
  /\ top = "unit"
  /\ \E ps \in PieceSeqs : Separate(ps) /\ stack = <<ExpandFrame(ps)>>
  /\ vars \in ExpandStores
  /\ ret = ""
  /\ trace = <<>>
  /\ lastLoop = NoLoop
  /\ nread = 0

CallExpand ==
  /\ top = "unit" /\ stack # <<>> /\ Top.k = "expand"
  /\ trace' = <<EvCall("expandVars", Top.cmds, expandVars(Top.line, vars))>>
  /\ stack' = <<>>
  /\ UNCHANGED <<top, vars, ret, lastLoop, nread>>

SpecExpand == InitExpand /\ [][CallExpand]_all

\* what a piece stands for under a store
PieceValue(p, store) ==
  IF \E n \in ExpandNames : p \in {Dollar(n), Braced(n)}
  THEN LET n == CHOOSE m \in ExpandNames : p \in {Dollar(m), Braced(m)}
       IN  IF n \in DOMAIN store THEN store[n] ELSE ""
  ELSE p

PieceValues(ps, store) == [i \in 1..Len(ps) |-> PieceValue(ps[i], store)]

Expanded(e) == e.ev = "call" /\ e.name = "expandVars"

\* C11: expanding a text replaces every $name and ${name} by the value of
\* name, or by nothing when name is unbound, and leaves every other
\* character as it is (a "$" that starts no name included); no error.
C11_ExpandReplaces ==
  \A i \in 1..Len(trace) :
    Expanded(trace[i]) =>
      trace[i].res["output"].s = Join(PieceValues(trace[i].args, vars), "")

\* ip.$x.net has been expanded, with x = 5, to ip.5.net
C11_Witness ==
  /\ "x" \in DOMAIN vars /\ vars["x"] = "5"
  /\ \E i \in 1..Len(trace) :
       /\ Expanded(trace[i])
       /\ trace[i].args = <<"ip.", "$x", ".net">>
       /\ trace[i].res["output"].s = "ip.5.net"

(***************************************************************************)
(* trex_utils.ParseCommand on its own, called on every line of at most     *)
(* MaxLineLen characters over LineAlphabet.                                *)
(***************************************************************************)
\* a letter, the space, the two quote marks, the backslash and "@", the
\* rune of two bytes
LineAlphabet == {"a", " ", "\"", "'", "\\", "@"}

\* the characters of a line, at most
MaxLineLen == 4

Lines == {Join(cs, "") : cs \in UNION {[1..n -> LineAlphabet] : n \in 0..MaxLineLen}}

TokensFrame(line) ==
  Frame("tokens", line, "", <<>>, <<>>, 0, 0, FALSE, EmptyStore, 0, <<>>)

\* ParseCommand(line) gave the tokens toks
EvTokens(line, toks) ==
  Event("call", "ParseCommand", <<line>>, EmptyResult, LiteralResult(StrsV(toks)), "")

InitTokens ==
  /\ top = "unit"
  /\ \E line \in Lines : stack = <<TokensFrame(line)>>
  /\ vars = EmptyStore
  /\ ret = ""
  /\ trace = <<>>
  /\ lastLoop = NoLoop
  /\ nread = 0

CallTokens ==
  /\ top = "unit" /\ stack # <<>> /\ Top.k = "tokens"
  /\ trace' = <<EvTokens(Top.line, ParseCommand(Top.line))>>
  /\ stack' = <<>>
  /\ UNCHANGED <<top, vars, ret, lastLoop, nread>>

SpecTokens == InitTokens /\ [][CallTokens]_all

Tokenized(e) == e.ev = "call" /\ e.name = "ParseCommand"

\* position i of line lies after an odd number of double quotes
Quoted(line, i) == Cardinality({j \in 1..(i - 1) : Ch(line, j) = "\""}) % 2 = 1

\* the spaces that separate tokens
Separators(line) == {i \in 1..Len(line) : Ch(line, i) = " " /\ ~Quoted(line, i)}

\* the k-th smallest member of S
Nth(S, k) == CHOOSE x \in S : Cardinality({y \in S : y < x}) = k - 1

\* the line cut at its separators
Pieces(line) ==
  LET cuts == {0} \cup Separators(line) \cup {Len(line) + 1}
  IN  [k \in 1..(Cardinality(cuts) - 1) |->
         SubSeq(line, Nth(cuts, k) + 1, Nth(cuts, k + 1) - 1)]

DropQuotes(text) == Join(Split(text, "\""), "")

StatedTokens(line) ==
  LET ps == Pieces(line)
  IN  NonEmpty([k \in 1..Len(ps) |-> DropQuotes(ps[k])])

\* the line without its double quotes and its separating spaces
Kept(line) ==
  Join([i \in 1..Len(line) |->
          IF Ch(line, i) = "\"" \/ i \in Separators(line) THEN "" ELSE Ch(line, i)], "")

\* C15: the tokenizer gives no empty token and no token for the empty
\* line, and loses no character: the tokens put together are the line
\* without its separating spaces and its quote marks, whatever the last
\* character of the line is, so a non-empty trailing buffer is always
\* emitted.
C15_NothingLost ==
  \A i \in 1..Len(trace) :
    Tokenized(trace[i]) =>
      LET line == trace[i].args[1]
          toks == trace[i].res["output"].l
      IN  /\ \A k \in 1..Len(toks) : toks[k] # ""
          /\ line = "" => toks = <<>>
          /\ Join(toks, "") = Kept(line)

\* C16: a double quote toggles quoted mode and is dropped; a space inside
\* quotes stays in its token; single quotes and backslashes are ordinary
\* characters; after an unterminated quote the rest of the line belongs to
\* the last token: the tokens are the pieces between the unquoted spaces,
\* without their double quotes, the empty ones left out.
C16_QuoteRules ==
  \A i \in 1..Len(trace) :
    Tokenized(trace[i]) =>
      trace[i].res["output"].l = StatedTokens(trace[i].args[1])

(***************************************************************************)
(* The stages of a pipeline, read off the step of executePipeline.         *)
(***************************************************************************)
IsStage(e) == e.ev = "stage"

HasTokens(t) == Len(t) > 0

\* the tokens of each stage written in Top.line, the empty stages left out
StageTokens ==
  LET written == Split(TrimSpace(SplitN2(Top.line, "|")[2]), "|")
  IN  SelectSeq([k \in 1..Len(written) |-> ParseCommand(TrimSpace(written[k]))], HasTokens)

\* the indices of the stage events among the new events
StageAt == {i \in 1..Len(NewEvents) : IsStage(NewEvents[i])}

Directives == {"select", "pp", "tt"}

\* what the claim says a stage module gets from the current output
StatedProjection(result) ==
  IF "output" \notin DOMAIN result THEN <<>>
  ELSE LET out == result["output"]
       IN  CASE out.t = "nil"     -> <<>>
             [] out.t = "string"  -> <<out.s>>
             [] out.t = "float64" -> <<out.s>>
             [] out.t = "bool"    -> <<IF out = BoolV(TRUE) THEN "true" ELSE "false">>
             [] out.t = "map"     -> <<MarshalMap(out.m)>>
             [] OTHER             -> [k \in 1..Len(out.l) |-> out.l[k]]

C18_Step ==
  (Dispatching /\ Handler(Top.line) = "pipeline" /\ HasPipe(Top.line)) =>
    \A k \in 1..Cardinality(StageAt) :
      LET i    == Nth(StageAt, k)
          e    == NewEvents[i]
          toks == StageTokens[k]
      IN  /\ e.name = toks[1]
          /\ e.name \notin Directives =>
               /\ e.args = Tail(toks) \o StatedProjection(e.pre)
               /\ NewEvents[i - 1] = EvExec(e.name, e.args)

\* C18: a stage that is a module call invokes the module with the stage's
\* own tokens after the name, in order, followed by the projection of the
\* current output: a string as it is, a number or a boolean as its text, a
\* list element by element, a mapping as one JSON text, and nothing for an
\* output that is absent or null.
C18_StageArguments == [][C18_Step]_all

StageRan(op, args) ==
  \E i \in 1..Len(trace) : IsStage(trace[i]) /\ trace[i].name = op /\ trace[i].args = args

\* [1 2 3] | echo x y has run echo with x, y and then the three items
C18_Witness == StageRan("echo", <<"x", "y", "1", "2", "3">>)

IsPrint(e) == e.ev = "print"

\* the pp and tt stages that no module stage follows
ModeStages ==
  {j \in StageAt : /\ NewEvents[j].name \in {"pp", "tt"}
                   /\ \A m \in StageAt : m > j => NewEvents[m].name \in Directives}

\* the mode the last of them sets
StatedMode ==
  IF ModeStages = {} THEN "Raw"
  ELSE IF NewEvents[SetMax(ModeStages)].name = "pp" THEN "Pretty" ELSE "Table"

C19_Step ==
  (Dispatching /\ Handler(Top.line) = "pipeline") =>
    \A i \in 1..Len(NewEvents) : IsPrint(NewEvents[i]) => NewEvents[i].mode = StatedMode

\* C19: the display mode is one value, Raw at first, set to Pretty by pp
\* and to Table by tt: the final Result is rendered in the mode of the last
\* pp or tt stage applied to it (tt | pp renders Pretty, pp | tt renders
\* Table), and in Raw when there is none.
C19_LastModeWins == [][C19_Step]_all

IsModuleStage(e) == IsStage(e) /\ e.name \notin Directives

C20_Step ==
  (Dispatching /\ Handler(Top.line) = "pipeline") =>
    \A k \in StageAt :
      LET e == NewEvents[k]
      IN  IsModuleStage(e) =>
            /\ e.res = ExecuteResult(e.name, e.args)
            /\ \A i \in (k + 1)..Len(NewEvents) :
                 (IsPrint(NewEvents[i]) /\ k = SetMax(StageAt)) =>
                   NewEvents[i] = EvPrint(e.res, "Raw")

\* C20: a stage that is a module call leaves as working Result the Result
\* the module returned and nothing else: a narrowing by an earlier select
\* reaches the module only through its arguments, and a mode set by an
\* earlier pp or tt does not apply when the new Result is rendered.
C20_ReplacedWholesale == [][C20_Step]_all

\* info | select a | pp | echo k has rendered the Result of echo in Raw
C20_Witness ==
  /\ Len(trace) >= 3
  /\ \E j \in 1..(Len(trace) - 2) :
       /\ IsStage(trace[j]) /\ trace[j].name = "pp"
       /\ "__pretty_print" \in DOMAIN trace[j].res
  /\ trace[Len(trace) - 1].ev = "stage" /\ trace[Len(trace) - 1].name = "echo"
  /\ trace[Len(trace) - 1].args = <<"k", "{\"a\":1}">>
  /\ trace[Len(trace)] = EvPrint(ExecuteResult("echo", <<"k", "{\"a\":1}">>), "Raw")

FlagKeys == {"__pretty_print", "__table_print"}

\* key has the same value, or none, in the Results a and b
SameAt(a, b, key) ==
  /\ key \in DOMAIN a <=> key \in DOMAIN b
  /\ key \in DOMAIN a => a[key] = b[key]

ModuleStageAt == {k \in StageAt : IsModuleStage(NewEvents[k])}

\* the Result the module returned that the step's last rendering shows:
\* that of the last module stage, else that of the head
Returned ==
  IF ModuleStageAt # {} THEN NewEvents[SetMax(ModuleStageAt)].res
  ELSE NewEvents[SetMin(StageAt)].pre

C21_Step ==
  (Dispatching /\ Handler(Top.line) = "pipeline") =>
    /\ \A k \in StageAt :
         LET e == NewEvents[k]
         IN  e.name \in Directives =>
               /\ \A key \in (DOMAIN e.pre \cup DOMAIN e.res) \ (FlagKeys \cup {"output"}) :
                    SameAt(e.pre, e.res, key)
               /\ e.name = "select" => \A key \in FlagKeys : SameAt(e.pre, e.res, key)
               /\ e.name \in {"pp", "tt"} => SameAt(e.pre, e.res, "output")
    /\ \A i \in 1..Len(NewEvents) :
         (IsPrint(NewEvents[i]) /\ NewEvents[i].mode = "Raw" /\ StageAt # {}) =>
           /\ DOMAIN NewEvents[i].res = DOMAIN Returned
           /\ \A key \in DOMAIN Returned \ {"output"} : NewEvents[i].res[key] = Returned[key]

\* C21: select changes only output, and pp and tt change neither output
\* nor status nor any other field the module returned; a Raw rendering
\* after any sequence of select, pp and tt stages shows the fields the
\* module returned, each but output with the value returned, and no other
\* field.
C21_DirectivesFrame == [][C21_Step]_all

\* info | select a c has been rendered in Raw with host as info returned it
C21_Witness ==
  /\ Len(trace) >= 2
  /\ IsStage(trace[Len(trace) - 1]) /\ trace[Len(trace) - 1].name = "select"
  /\ IsPrint(trace[Len(trace)]) /\ trace[Len(trace)].mode = "Raw"
  /\ trace[Len(trace)].res["host"] = StrV("rex")
  /\ trace[Len(trace)].res["output"] = MapV([a |-> "1", c |-> "3"])

(***************************************************************************)
(* The two top-level loops: Shell.Run and ExecuteFile.                     *)
(***************************************************************************)
\* executeCommand has returned an error to the loop of kind k
ErrorReturnedTo(k) == Running({k}) /\ Top.wait /\ ret # ""

AtPrompt == top = "run" /\ stack = <<RunFrame(FALSE)>>

\* the step calls executeCommand from the frame on top
Calls == Len(stack') = Len(stack) + 1 /\ stack'[Len(stack')].k = "exec"

C22_Step ==
  /\ ErrorReturnedTo("run") => AtPrompt' /\ NewEvents = <<EvDiag("error", ret)>>
  /\ ErrorReturnedTo("file") =>
       /\ stack' = Pop
       /\ \A i \in 1..Len(NewEvents) : NewEvents[i].ev \notin {"history", "handler"}
  /\ (Running({"file"}) /\ Calls) =>
       LET j == stack'[Len(stack)].ci
       IN  /\ j > Top.ci
           /\ \A i \in (Top.ci + 1)..(j - 1) :
                TrimSpace(Top.cmds[i]) = "" \/ Ch(TrimSpace(Top.cmds[i]), 1) = "#"
           /\ stack'[Len(stack')] = ExecFrame(TrimSpace(Top.cmds[j]))

\* a loop below the top of the stack is waiting for the line it called
C22_OneAtATime ==
  \A i \in 1..(Len(stack) - 1) : stack[i].k \in {"run", "file"} => stack[i].wait

\* C22: at the prompt an error returned for a line is reported and the
\* shell goes back to the prompt, the session going on; in a script the
\* first line that returns an error ends the run of the script and no later
\* line of it is executed; in both the lines run in input order, each one
\* to its end before the next.
C22_ErrorPolicy ==
  /\ [][C22_Step]_all
  /\ []C22_OneAtATime
  /\ ErrorReturnedTo("run") ~> AtPrompt

\* the error of a line typed first was reported and the prompt is read again
C22_Witness ==
  /\ AtPrompt /\ nread < MaxLines
  /\ trace # <<>> /\ trace[Len(trace)] = EvDiag("error", ret) /\ ret # ""

(***************************************************************************)
(* History (trex_utils): the commands kept in memory, the file they are    *)
(* saved to after every Add, and the reload of NewHistory at startup.      *)
(***************************************************************************)
\* maxSize, at most
MaxCap == 2

\* the lines of the history file at the first startup, at most
MaxFile == 3

\* the calls of Add between two startups, at most
MaxAdds == 3

HistoryCmds == {"a", "b"}

AddInputs == {"a", "b", " a ", "  ", ""}

\* the last n elements of a sequence
LastN(q, n) == SubSeq(q, SetMax({1, Len(q) - n + 1}), Len(q))

\* Add with the newest command dropped at the cap
HistoryAddKeepsOldest(commands, maxSize, cmd) ==
  LET c == TrimSpace(cmd)
  IN  IF c = "" THEN commands
      ELSE IF Len(commands) + 1 > maxSize THEN SubSeq(Append(commands, c), 1, maxSize)
      ELSE Append(commands, c)

\* History.Add: h.commands afterwards
HistoryAdd(commands, maxSize, cmd) ==
  LET c == TrimSpace(cmd)
  IN  IF c = "" THEN commands
      ELSE IF Len(commands) + 1 > maxSize THEN Tail(Append(commands, c))
      ELSE Append(commands, c)

\* History.loadHistory on an empty h.commands: every line of the file
\* appended, then the slice cut to its last maxSize elements
loadHistory(file, maxSize) ==
  IF Len(file) > maxSize THEN SubSeq(file, Len(file) - maxSize + 1, Len(file)) ELSE file

\* the History object: cmds is h.commands, values the lines of the file,
\* vi is maxSize; done is the file as the last startup found it
HistoryFrame(commands, file, maxSize, found) ==
  Frame("history", "", "", file, commands, maxSize, 0, FALSE, EmptyStore, 0, found)

EvAdd(cmd) == Event("call", "Add", <<cmd>>, EmptyResult, EmptyResult, "")

InitHistory ==
  /\ top = "unit"
  /\ \E maxSize \in 1..MaxCap :
       \E file \in UNION {[1..n -> HistoryCmds] : n \in 0..MaxFile} :
         stack = <<HistoryFrame(loadHistory(file, maxSize), file, maxSize, file)>>
  /\ vars = EmptyStore
  /\ ret = ""
  /\ trace = <<>>
  /\ lastLoop = NoLoop
  /\ nread = 0

\* h.Add(cmd), with saveHistory when the command is kept
Add ==
  /\ top = "unit" /\ stack # <<>> /\ Top.k = "history" /\ Len(trace) < MaxAdds
  /\ \E cmd \in AddInputs :
       LET commands == HistoryAdd(Top.cmds, Top.vi, cmd)
       IN  /\ stack' = <<[Top EXCEPT !.cmds = commands,
                                     !.values = IF TrimSpace(cmd) = "" THEN @ ELSE commands]>>
           /\ trace' = Append(trace, EvAdd(cmd))
  /\ UNCHANGED <<top, vars, ret, lastLoop, nread>>

\* the shell is started again: NewHistory reads the file
Reload ==
  /\ top = "unit" /\ stack # <<>> /\ Top.k = "history" /\ trace # <<>>
  /\ stack' = <<HistoryFrame(loadHistory(Top.values, Top.vi), Top.values, Top.vi, Top.values)>>
  /\ trace' = <<>>
  /\ UNCHANGED <<top, vars, ret, lastLoop, nread>>

NextHistory == Add \/ Reload

SpecHistory == InitHistory /\ [][NextHistory]_all

\* the commands added since the last startup that Add keeps, trimmed
RECURSIVE Kept23(_)
Kept23(events) ==
  IF events = <<>> THEN <<>>
  ELSE LET c == TrimSpace(events[1].args[1])
       IN  (IF c = "" THEN <<>> ELSE <<c>>) \o Kept23(Tail(events))

\* C23: the history holds at most maxSize commands, and they are the most
\* recent ones in the order they came: the lines the file had at startup
\* followed by the non-blank commands added since, cut to the last maxSize,
\* so that at the cap each Add evicts exactly the oldest command and a
\* reload keeps the last maxSize lines of the file in their order.
C23_CappedQueue ==
  (stack # <<>> /\ Top.k = "history") =>
    /\ Len(Top.cmds) <= Top.vi
    /\ Top.cmds = LastN(Top.done \o Kept23(trace), Top.vi)

\* at the cap, two commands and a blank one were added: the two oldest
\* commands are gone
C23_Witness ==
  /\ stack # <<>> /\ Top.k = "history"
  /\ Top.vi = 2 /\ Top.done = <<"a", "a", "b">>
  /\ trace = <<EvAdd(" a "), EvAdd("  "), EvAdd("b")>>
  /\ Top.cmds = <<"a", "b">>

\* the "|" at index i of line is escaped: inside double quotes, or right
\* after a backslash
Escaped(line, i) == Quoted(line, i) \/ (i > 1 /\ Ch(line, i - 1) = "\\")

Bars(line) == {i \in 1..Len(line) : Ch(line, i) = "|"}

C24_Step ==
  (Dispatching /\ FirstMatch(Top.line) \in {"pipeline", "module"} /\ Bars(Top.line) # {}
     /\ \A i \in Bars(Top.line) : Escaped(Top.line, i))
  => /\ TakenBy("module")
     /\ \A i \in 1..Len(NewEvents) :
          IsExec(NewEvents[i]) =>
            /\ NewEvents[i].name = ParseCommand(Top.line)[1]
            /\ NewEvents[i].args = MapExpand(Tail(ParseCommand(Top.line)), vars)

\* C24: only an unescaped "|" separates stages: a line whose every "|" is
\* escaped, by a backslash before it or by double quotes around it, is not
\* a pipeline; it is executed as one module call whose argument holds the
\* "|".
C24_EscapedBar == [][C24_Step]_all

\* C25: no line and no answer of a module ends the shell process:
\* executeCommand always returns, with an error or without, and never
\* panics.
C25_NeverCrashes == top # "panic"

\* the script on top of the stack was run by a loop body or by a script
CalledFromBody ==
  Len(stack) > 1 /\ stack[Len(stack) - 1].k \in LoopKinds \cup {"file"}

C26_Step ==
  (ErrorReturnedTo("file") /\ CalledFromBody) =>
    /\ ret' # ""
    /\ \A i \in 1..Len(NewEvents) : NewEvents[i].ev \notin {"history", "handler", "bind"}

\* C26: a line of a script that fails is an error for whoever ran the
\* script: when the script was run from a loop body or from another
\* script, the caller gets the failure, so that the loop runs no further
\* iteration and the outer script no further line.
C26_ScriptErrorPropagates == [][C26_Step]_all

(***************************************************************************)
(* PythonExecutor.Execute: the module process, the goroutine that forwards *)
(* its standard error line by line, and the caller, which copies standard  *)
(* output to its end, waits for the process and returns.  cmd.Wait closes  *)
(* the read ends of both pipes once the process has exited.                *)
(***************************************************************************)
\* the diagnostic lines a module writes, at most
MaxDiag == 3

DiagLines == <<"e1", "e2", "e3", "e4">>

\* pc: where Execute is; gpc: where the goroutine is; toWrite: the lines
\* the module has still to write; pipe: the lines written and not yet read;
\* hand: the line Scan returned last; forwarded: the lines printed so far;
\* printedLate: a line was printed after Execute had returned
ExecuteFrame(lines) ==
  [k |-> "execute", pc |-> "copy", gpc |-> "scan", toWrite |-> lines, written |-> <<>>,
   pipe |-> <<>>, hand |-> "", forwarded |-> <<>>, exited |-> FALSE, closed |-> FALSE,
   captured |-> FALSE, printedLate |-> FALSE]

InitExecute ==
  /\ top = "unit"
  /\ \E n \in 0..MaxDiag : stack = <<ExecuteFrame(SubSeq(DiagLines, 1, n))>>
  /\ vars = EmptyStore
  /\ ret = ""
  /\ trace = <<>>
  /\ lastLoop = NoLoop
  /\ nread = 0

Executing == top = "unit" /\ stack # <<>> /\ Top.k = "execute"

Step27(f) == stack' = <<f>> /\ UNCHANGED <<top, vars, ret, trace, lastLoop, nread>>

\* the module writes a line to its standard error
ModuleWrite ==
  /\ Executing /\ ~Top.exited /\ Top.toWrite # <<>>
  /\ Step27([Top EXCEPT !.toWrite = Tail(@), !.pipe = Append(@, Head(Top.toWrite)),
                        !.written = Append(@, Head(Top.toWrite))])

\* the module has written its JSON answer and exits
ModuleExit ==
  /\ Executing /\ ~Top.exited /\ Top.toWrite = <<>>
  /\ Step27([Top EXCEPT !.exited = TRUE])

\* io.Copy(&outBuf, stdoutPipe) returns at the end of standard output
Copy ==
  /\ Executing /\ Top.pc = "copy" /\ Top.exited
  /\ Step27([Top EXCEPT !.pc = "wait", !.captured = TRUE])

\* cmd.Wait(): the process is reaped and the pipes are closed
Wait ==
  /\ Executing /\ Top.pc = "wait" /\ Top.exited
  /\ Step27([Top EXCEPT !.pc = "unmarshal", !.closed = TRUE, !.pipe = <<>>])

\* json.Unmarshal and return
ExecuteReturn ==
  /\ Executing /\ Top.pc = "unmarshal"
  /\ Step27([Top EXCEPT !.pc = "returned"])

\* scanner.Scan(): a line, or false at the end of the stream or on the
\* closed pipe
Scan ==
  /\ Executing /\ Top.gpc = "scan"
  /\ IF Top.closed THEN Step27([Top EXCEPT !.gpc = "done"])
     ELSE IF Top.pipe # <<>>
     THEN Step27([Top EXCEPT !.gpc = "print", !.hand = Head(Top.pipe), !.pipe = Tail(@)])
     ELSE Top.exited /\ Step27([Top EXCEPT !.gpc = "done"])

\* fmt.Fprintln(os.Stderr, scanner.Text())
Forward ==
  /\ Executing /\ Top.gpc = "print"
  /\ Step27([Top EXCEPT !.gpc = "scan", !.forwarded = Append(@, Top.hand),
                        !.printedLate = @ \/ Top.pc = "returned"])

NextExecute ==
  \/ ModuleWrite
  \/ ModuleExit
  \/ Copy
  \/ Wait
  \/ ExecuteReturn
  \/ Scan
  \/ Forward

SpecExecute == InitExecute /\ [][NextExecute]_all

\* C27: when Execute returns the module has exited, its standard output is
\* captured to the end, and the forwarding goroutine has finished: every
\* line the module wrote to standard error has been forwarded, and none is
\* forwarded after the return.
C27_ForwardedBeforeReturn ==
  (Executing /\ Top.pc = "returned") =>
    /\ Top.exited /\ Top.captured
    /\ Top.gpc = "done"
    /\ Top.forwarded = Top.written
    /\ ~Top.printedLate

\* how a text is parsed: the handler that takes it, and the number of
\* tokens of each of its stages
Shape(text) ==
  LET parts == IF HasPipe(text) THEN Split(text, "|") ELSE <<text>>
  IN  [handler |-> Handler(text),
       tokens  |-> [i \in 1..Len(parts) |-> Len(ParseCommand(TrimSpace(parts[i])))]]

\* the loop that called the command in executeCommand
Caller == stack[Len(stack) - 1]

CalledByLoop == Len(stack) > 1 /\ Caller.k \in LoopKinds

C28_Step ==
  (Dispatching /\ NewEvents # <<>>) =>
    IF CalledByLoop
    THEN \A v \in {Caller.values[i] : i \in 1..Len(Caller.values)} :
           Shape(Top.line) = Shape(expandVars(SourceText, Bind(vars, Caller.varName, v)))
    ELSE (TakenBy("module") /\ \E i \in 1..Len(NewEvents) : IsExec(NewEvents[i]))
           => Len(FirstExec(NewEvents).args) = Len(ParseCommand(Top.line)) - 1

\* C28: the values of variables do not change how a line is parsed: a
\* command run at top level or as a sub-command of a loop body is taken by
\* the same handler, has the same stages and hands each module the same
\* number of arguments whatever the values are; a value with spaces,
\* quotes or "|" arrives inside one argument.
C28_ValuesDoNotParse == [][C28_Step]_all

(***************************************************************************)
(* LineEditor.ReadLine under Shell.Run: the key events of each call, with   *)
(* the history the shell adds the returned lines to.  A rune is one         *)
(* character of the line.                                                   *)
(***************************************************************************)
MaxKeys == 3

MaxCalls == 2

MaxEntries == 2

\* NewHistory(1000) in NewShell
ShellHistorySize == 1000

EditorCmds == {"a", "bc"}

Printable == {"x"}

\* line = append(line[:cursorPos], append([]rune{r}, line[cursorPos:]...)...)
\* (or append(line, r) at the end of the line)
InsertAtEnd(line, cursorPos, r) == line \o r

InsertRune(line, cursorPos, r) ==
  SubSeq(line, 1, cursorPos) \o r \o SubSeq(line, cursorPos + 1, Len(line))

\* line = append(line[:cursorPos-1], line[cursorPos:]...)
DeleteRune(line, cursorPos) ==
  SubSeq(line, 1, cursorPos - 1) \o SubSeq(line, cursorPos + 1, Len(line))

\* LineEditor.historyPrevious: le.historyIndex afterwards
historyPrevious(historyIndex, commands) ==
  IF historyIndex < Len(commands) - 1 THEN historyIndex + 1 ELSE historyIndex

\* LineEditor.historyNext: le.historyIndex afterwards
historyNext(historyIndex) ==
  IF historyIndex > 0 THEN historyIndex - 1
  ELSE IF historyIndex = 0 THEN 0 - 1
  ELSE historyIndex

\* LineEditor.getHistoryLine
getHistoryLine(historyIndex, tempLine, commands) ==
  IF historyIndex = 0 - 1 THEN tempLine
  ELSE IF historyIndex >= Len(commands) THEN ""
  ELSE commands[Len(commands) - historyIndex]

\* the editor of one shell session: pc is "idle" before the first call,
\* "reading" inside ReadLine and "returned" when Run holds the line read;
\* commands is the history the editor shares with the shell
EditorFrame(commands) ==
  [k |-> "editor", pc |-> "idle", line |-> "", cursorPos |-> 0,
   historyIndex |-> 0 - 1, tempLine |-> "", commands |-> commands, calls |-> 0]

EvKey(name, r, line) == Event("key", name, <<r, line>>, EmptyResult, EmptyResult, "")

InitEditor ==
  /\ top = "unit"
  /\ \E commands \in UNION {[1..n -> EditorCmds] : n \in 0..MaxEntries} :
       stack = <<EditorFrame(commands)>>
  /\ vars = EmptyStore
  /\ ret = ""
  /\ trace = <<>>
  /\ lastLoop = NoLoop
  /\ nread = 0

InEditor == top = "unit" /\ stack # <<>> /\ Top.k = "editor"

Editing == InEditor /\ Top.pc = "reading"

KeyStep(name, r, f) ==
  /\ Len(trace) < MaxKeys
  /\ stack' = <<f>>
  /\ trace' = Append(trace, EvKey(name, r, Top.line))
  /\ UNCHANGED <<top, vars, ret, lastLoop, nread>>

\* Run calls editor.ReadLine: line and cursorPos are new variables
ReadLine ==
  /\ InEditor /\ Top.pc = "idle" /\ Top.calls < MaxCalls
  /\ stack' = <<[Top EXCEPT !.pc = "reading", !.line = "", !.cursorPos = 0,
                            !.calls = @ + 1]>>
  /\ trace' = <<>>
  /\ UNCHANGED <<top, vars, ret, lastLoop, nread>>

\* a printable rune
KeyPrintable ==
  /\ Editing
  /\ \E r \in Printable :
       KeyStep("char", r, [Top EXCEPT !.line = InsertRune(Top.line, Top.cursorPos, r),
                                      !.cursorPos = @ + 1])

\* 127 or 8
KeyBackspace ==
  /\ Editing
  /\ KeyStep("backspace", "",
             IF Top.cursorPos > 0
             THEN [Top EXCEPT !.line = DeleteRune(Top.line, Top.cursorPos),
                              !.cursorPos = @ - 1]
             ELSE Top)

\* ESC [ D
KeyLeft ==
  /\ Editing
  /\ KeyStep("left", "", IF Top.cursorPos > 0 THEN [Top EXCEPT !.cursorPos = @ - 1] ELSE Top)

\* ESC [ C
KeyRight ==
  /\ Editing
  /\ KeyStep("right", "",
             IF Top.cursorPos < Len(Top.line) THEN [Top EXCEPT !.cursorPos = @ + 1] ELSE Top)

\* ESC [ A
KeyUp ==
  /\ Editing
  /\ LET tempLine == IF Top.historyIndex = 0 - 1 THEN Top.line ELSE Top.tempLine
         index    == historyPrevious(Top.historyIndex, Top.commands)
         line     == getHistoryLine(index, tempLine, Top.commands)
     IN  KeyStep("up", "", [Top EXCEPT !.tempLine = tempLine, !.historyIndex = index,
                                       !.line = line, !.cursorPos = Len(line)])

\* ESC [ B
KeyDown ==
  /\ Editing
  /\ LET index == historyNext(Top.historyIndex)
         line  == getHistoryLine(index, Top.tempLine, Top.commands)
     IN  KeyStep("down", "", [Top EXCEPT !.historyIndex = index, !.line = line,
                                         !.cursorPos = Len(line)])

\* Enter: ReadLine returns string(line)
KeyEnter ==
  /\ Editing
  /\ stack' = <<[Top EXCEPT !.pc = "returned", !.tempLine = ""]>>
  /\ ret' = Top.line
  /\ UNCHANGED <<top, vars, trace, lastLoop, nread>>

\* Run with the line read: a blank line is skipped, any other is added to
\* the history, and the loop comes back to ReadLine
RunLine ==
  /\ InEditor /\ Top.pc = "returned"
  /\ stack' = <<[Top EXCEPT !.pc = "idle",
                            !.commands = HistoryAdd(@, ShellHistorySize, TrimSpace(ret))]>>
  /\ ret' = ""
  /\ UNCHANGED <<top, vars, trace, lastLoop, nread>>

NextEditor ==
  \/ ReadLine
  \/ KeyPrintable
  \/ KeyBackspace
  \/ KeyLeft
  \/ KeyRight
  \/ KeyUp
  \/ KeyDown
  \/ KeyEnter
  \/ RunLine

SpecEditor == InitEditor /\ [][NextEditor]_all


\* the key event a step of ReadLine handled
Key == trace'[Len(trace')]

KeyEvent == Editing /\ Len(trace') = Len(trace) + 1

C29_Step ==
  KeyEvent =>
    LET p    == Top.cursorPos
        line == Top.line
        r    == Key.args[1]
    IN  /\ Top'.cursorPos >= 0 /\ Top'.cursorPos <= Len(Top'.line)
        /\ Key.name = "char" =>
             /\ Len(Top'.line) = Len(line) + 1
             /\ Ch(Top'.line, p + 1) = r
             /\ \A i \in 1..Len(line) :
                  Ch(Top'.line, IF i <= p THEN i ELSE i + 1) = Ch(line, i)
             /\ Top'.cursorPos = p + 1
        /\ (Key.name = "backspace" /\ p > 0) =>
             /\ Len(Top'.line) = Len(line) - 1
             /\ \A i \in 1..Len(line) :
                  i # p => Ch(Top'.line, IF i < p THEN i ELSE i - 1) = Ch(line, i)
             /\ Top'.cursorPos = p - 1
        /\ (Key.name = "backspace" /\ p = 0) =>
             Top'.line = line /\ Top'.cursorPos = 0

\* C29: in every call of ReadLine the cursor stays within the line after
\* each key event (it starts at 0 on an empty line); a printable character
\* typed with the cursor at p becomes the character at index p, the
\* characters from p on move one place to the right and the cursor goes to
\* p+1; Backspace with the cursor at p > 0 takes out the character at p-1
\* and moves the cursor to p-1, and with the cursor at 0 changes nothing.
C29_CursorAndEdits ==
  /\ [](Editing => Top.cursorPos >= 0 /\ Top.cursorPos <= Len(Top.line))
  /\ [][C29_Step]_all

\* a character was typed in the middle of a line and the character before
\* the cursor was taken out of a line of two
C29_Witness ==
  /\ Editing /\ Len(trace) = 3
  /\ trace[1].name = "up" /\ trace[2].name = "left" /\ trace[3].name = "char"
  /\ Top.line = "bxc" /\ Top.cursorPos = 2


\* where the key events of a call leave the navigation, as stated: d is the
\* number of entries gone back from the line being typed (0 is that line),
\* typed the text the line held at the Up that left it; moved tells that the
\* last event was an Up, or a Down from an entry
RECURSIVE Navigation(_, _, _)
Navigation(events, n, nav) ==
  IF events = <<>> THEN nav
  ELSE LET e == Head(events)
           next == IF e.name = "up"
                   THEN [d |-> SetMin({nav.d + 1, n}),
                         typed |-> IF nav.d = 0 THEN e.args[2] ELSE nav.typed,
                         moved |-> TRUE]
                   ELSE IF e.name = "down"
                   THEN [d |-> SetMax({nav.d - 1, 0}), typed |-> nav.typed,
                         moved |-> nav.d > 0]
                   ELSE [nav EXCEPT !.moved = FALSE]
       IN  Navigation(Tail(events), n, next)

Stated30 == Navigation(trace, Len(Top.commands), [d |-> 0, typed |-> "", moved |-> FALSE])

\* C30: in every call of ReadLine, the first and every later one of the
\* session, the navigation starts from the line being typed: the first Up
\* shows the most recent entry of the history, each further Up the next
\* older one and no further than the oldest, and as many Downs as Ups bring
\* back the text the line held before the first Up; the history index stays
\* between -1 and the number of entries minus one.
C30_NavigationPerCall ==
  InEditor =>
    /\ Top.historyIndex >= 0 - 1 /\ Top.historyIndex <= Len(Top.commands) - 1
    /\ (Top.pc = "reading" /\ Stated30.moved) =>
         Top.line = IF Stated30.d = 0 THEN Stated30.typed
                    ELSE Top.commands[Len(Top.commands) + 1 - Stated30.d]

\* the same within the first call of a session
C30_FirstCall == (InEditor /\ Top.calls <= 1) => C30_NavigationPerCall

====
